---- MODULE Spec2Model ----
(***************************************************************************)
(* ForthRepl (src/src/fonny/core/repl.py): the REPL engine that frames the *)
(* characters arriving from a CommunicationPort into response lines, fans  *)
(* events out to its archivists and forwards user commands to the port.    *)
(*                                                                         *)
(* Python strings are modelled as sequences of one-character strings, so   *)
(* that appending a terminator, lower-casing and endswith are computed.    *)
(***************************************************************************)
EXTENDS Integers, Sequences, FiniteSets, TLC

\* ------------------------------------------------------------------ bounds
MaxCalls == 2        \* start, stop and process_command calls in one run
MaxFed == 4          \* characters handed to handle_character in one run
MaxArchivists == 2   \* length of the archivist registry
MaxOps == 2          \* start, stop, process_command and handle_character calls in a short session

\* ------------------------------------------------------------------ inputs
\* The archivist objects a caller may register.
Archivists == {"a1", "a2"}

\* The characters the port may deliver: two ordinary ones and both terminators.
Chars == {"a", "b", "\n", "\r"}

\* The commands a caller may pass to process_command.
Commands ==
    { <<"e", "x", "i", "t">>,
      <<"E", "x", "i", "T">>,
      <<"e", "x", "i", "t", "\n">>,
      <<"2">>,
      <<"2", "\n">> }

\* ------------------------------------------------------------------ strings
\* str.lower() on one character (the letters the inputs use).
LowerChar(c) ==
    CASE c = "E" -> "e"
      [] c = "X" -> "x"
      [] c = "I" -> "i"
      [] c = "T" -> "t"
      [] OTHER -> c

\* str.lower()
Lower(s) == [i \in 1..Len(s) |-> LowerChar(s[i])]

\* str.endswith('\n')
EndsWithNewline(s) == Len(s) > 0 /\ s[Len(s)] = "\n"

\* A framer that takes only the carriage return for a terminator.
IsCarriageReturn(c) == c = "\r"

\* char == '\n' or char == '\r'
IsTerminator(c) == c = "\n" \/ c = "\r"

\* ------------------------------------------------------------------ events
\* ArchivistPort.record_user_command and its siblings: the (type, data) pair
\* each one hands to record_event.
UserCommand(command) == [type |-> "USER_COMMAND", data |-> command]
SystemResponse(response) == [type |-> "SYSTEM_RESPONSE", data |-> response]
SystemError(error) == [type |-> "SYSTEM_ERROR", data |-> error]
ConnectionOpened == [type |-> "CONNECTION_OPENED", data |-> <<>>]
ConnectionClosed == [type |-> "CONNECTION_CLOSED", data |-> <<>>]

\* ------------------------------------------------------------------ errors
\* str(e) of the exceptions the ports raise.
NotSetError == "No communication adapter has been set"
NotConnectedError == "Not connected to FORTH system"
ConnectError == "Connection error"
WriteError == "Write failed"
ArchivistError == "Archivist failed"
NoError == ""

VARIABLES
    comm_port,          \* ForthRepl._comm_port: "null" (NullCommunicationAdapter) or "port"
    connected,          \* the port's is_connected()
    archivists,         \* ForthRepl._archivists, in registration order
    current_response,   \* ForthRepl._current_response
    character_queue,    \* ForthRepl.character_queue
    events,             \* per archivist, the events its record_event stored
    failing,            \* the archivists whose record_event raises
    send_calls,         \* the payloads of the port's send_command calls, in order
    call,               \* the last call of an engine method: its name, argument and outcome
    trace,              \* the calls that call made on the port and the archivists, in order
    fed,                \* history: the characters handed to handle_character
    attended,           \* history: archivists registered exactly once in every dispatch so far
    calls,              \* history: how many start, stop and process_command calls were made
    taken,              \* history: the characters a consumer took from character_queue
    adapter,            \* the SerialAdapter: its _serial, _stop_reading and _read_thread
    handles,            \* the serial.Serial objects connect() created, in order
    threads             \* the calls in flight, per thread: where each one is

vars == <<comm_port, connected, archivists, current_response, character_queue,
          events, failing, send_calls, call, trace, fed, attended, calls,
          taken, adapter, handles, threads>>

\* What a method of the engine, called with no other call in flight and a port
\* that is not looked into, leaves alone.
other_vars == <<taken, adapter, handles, threads>>

\* None
None == "None"

\* `self._serial = None` and `self._read_thread = None`: no serial.Serial object
\* (the objects are numbered from 1 in `handles`) and no reader thread (the
\* threads are numbered from 1 in `threads.readers`).
NoHandle == 0
NoThread == 0

\* The threads that call the engine and the adapter.
Callers == {"main", "other"}

\* A caller's position: the call it is in (op, arg), the method of the engine
\* that made that call (outer, None when the caller made it), where it is in
\* it (pc, the index i of the loop over the registry, the archivist the loop
\* has taken from it, the line it read, the object h it read from _serial), and
\* how the call ended once pc is "done", or how the call it made ended once pc
\* is "returned".
NoFrame ==
    [op |-> None, pc |-> "idle", arg |-> <<>>, result |-> None, error |-> NoError,
     i |-> 0, line |-> <<>>, outer |-> None, h |-> NoHandle, archivist |-> None]

\* SerialAdapter.__init__, no serial.Serial object created, its own queue of
\* characters empty, no call in flight, and nothing taken from the engine's
\* queue.
Idle ==
    /\ taken = <<>>
    /\ adapter = [serial |-> NoHandle, stop_reading |-> FALSE, read_thread |-> NoThread,
                  char_queue |-> <<>>]
    /\ handles = <<>>
    /\ threads = [callers |-> [c \in Callers |-> NoFrame], readers |-> <<>>]

\* ------------------------------------------------------------------ fan-out
\* How many times archivist a is in the registry.
Registrations(a, registry) == Cardinality({i \in 1..Len(registry) : registry[i] = a})

\* `for archivist in self._archivists: archivist.record_...(...)`: the event is
\* stored by each archivist in registration order; the loop ends at the first
\* archivist whose record_event raises, and the exception leaves the loop.
RECURSIVE Notify(_, _, _)
Notify(event, registry, log) ==
    IF registry = <<>>
    THEN [log |-> log, raised |-> FALSE]
    ELSE IF Head(registry) \in failing
         THEN [log |-> log, raised |-> TRUE]
         ELSE Notify(event, Tail(registry),
                     [log EXCEPT ![Head(registry)] = Append(@, event)])

\* A loop that walks the registry from its end.
RECURSIVE VisitedBackwards(_)
VisitedBackwards(registry) ==
    IF registry = <<>> THEN <<>>
    ELSE IF registry[Len(registry)] \in failing THEN <<registry[Len(registry)]>>
         ELSE <<registry[Len(registry)]>>
                  \o VisitedBackwards(SubSeq(registry, 1, Len(registry) - 1))

\* The archivists whose record_event that loop calls, in the order called: the
\* registry up to and including the first archivist that raises.
RECURSIVE Visited(_)
Visited(registry) ==
    IF registry = <<>> THEN <<>>
    ELSE IF Head(registry) \in failing THEN <<Head(registry)>>
         ELSE <<Head(registry)>> \o Visited(Tail(registry))

\* One call the engine makes on an archivist or on the port; is_connected is
\* what the port's is_connected() would answer when the call is made.
NoEvent == [type |-> "", data |-> <<>>]
RecordEvent(archivist, event, is_connected) ==
    [target |-> archivist, method |-> "record_event", event |-> event,
     connected |-> is_connected]
PortCall(method, is_connected) ==
    [target |-> "port", method |-> method, event |-> NoEvent, connected |-> is_connected]

\* The record_event calls of one fan-out loop, in order.
Deliveries(event, registry, is_connected) ==
    [i \in 1..Len(Visited(registry)) |-> RecordEvent(Visited(registry)[i], event, is_connected)]

\* The archivists that were registered exactly once in every fan-out so far.
Attending(registry) == {a \in attended : Registrations(a, registry) = 1}

\* The outcome of an engine call, as its caller sees it: the value returned or
\* the exception raised. port is what the port's connect(), send_command() or
\* disconnect() answered in the call ("True", "False", "None", or the text of
\* the exception the port raised), NoCall when the call reached none of them.
NoCall == "not called"
Returned(op, arg, value, port) ==
    [op |-> op, arg |-> arg, result |-> value, error |-> NoError, port |-> port]
Raised(op, arg, error, port) ==
    [op |-> op, arg |-> arg, result |-> "raised", error |-> error, port |-> port]

\* ------------------------------------------------------------------ framing
\* A framer that flushes on every terminator, also with nothing pending.
CompletesLineAlways(char, pending) == IsTerminator(char)

\* `if char == '\n' or char == '\r': if self._current_response:`: the character
\* completes a line that is handed to _process_response.
CompletesLine(char, pending) == IsTerminator(char) /\ pending # <<>>

\* '', the string of no character: what b''.decode() gives.
Empty == ""

\* `self._current_response += char` for a char of one character or of none.
Plus(pending, char) == IF char = Empty THEN pending ELSE Append(pending, char)

\* A framer that forgets to reset the buffer after a flush.
NextPendingKept(char, pending) == IF IsTerminator(char) THEN pending ELSE Plus(pending, char)

\* _current_response after the character, when dispatch of a completed line returned.
NextPending(char, pending) == IF IsTerminator(char) THEN <<>> ELSE Plus(pending, char)

\* The body of ForthRepl.handle_character(char): what it does to the engine.
HandleCharacter(char) ==
    /\ Len(fed) < MaxFed
    /\ LET flush == CompletesLine(char, current_response)
           n == IF flush
                THEN Notify(SystemResponse(current_response), archivists, events)
                ELSE [log |-> events, raised |-> FALSE]
       IN /\ character_queue' = Append(character_queue, char)
          /\ events' = n.log
          /\ current_response' = IF n.raised THEN current_response
                                  ELSE NextPending(char, current_response)
          /\ attended' = IF flush THEN Attending(archivists) ELSE attended
          /\ call' = IF n.raised
                      THEN Raised("handle_character", <<char>>, ArchivistError, NoCall)
                      ELSE Returned("handle_character", <<char>>, "None", NoCall)
          /\ trace' = IF flush
                       THEN Deliveries(SystemResponse(current_response), archivists, connected)
                       ELSE <<>>
    /\ fed' = Append(fed, char)
    /\ UNCHANGED <<comm_port, archivists, failing, send_calls>>

\* ForthRepl.handle_character(char), called with no other call in flight.
handle_character(char) ==
    /\ HandleCharacter(char)
    /\ UNCHANGED <<connected, calls>>
    /\ UNCHANGED other_vars

\* ------------------------------------------------------------------ registry
\* A registry that ignores the registration of an archivist it already holds.
AddedOnce(registry, archivist) ==
    IF Registrations(archivist, registry) > 0 THEN registry ELSE Append(registry, archivist)

\* `self._archivists.append(archivist)`
Added(registry, archivist) == Append(registry, archivist)

\* ForthRepl.add_archivist(archivist)
add_archivist(archivist) ==
    /\ Len(archivists) < MaxArchivists
    /\ archivists' = Added(archivists, archivist)
    /\ call' = Returned("add_archivist", <<archivist>>, "None", NoCall)
    /\ trace' = <<>>
    /\ UNCHANGED <<comm_port, connected, current_response, character_queue,
                   events, failing, send_calls, fed, attended, calls>>
    /\ UNCHANGED other_vars

\* list.remove(x): the list without the first occurrence of x.
RECURSIVE ListRemove(_, _)
ListRemove(registry, x) ==
    IF registry = <<>> THEN <<>>
    ELSE IF Head(registry) = x THEN Tail(registry)
         ELSE <<Head(registry)>> \o ListRemove(Tail(registry), x)

\* A removal that leaves the registry as it is.
RemovedNever(registry, archivist) == registry

\* A removal that, asked for an archivist that is not registered, drops the
\* one registered last.
RemovedAnyway(registry, archivist) ==
    IF Registrations(archivist, registry) > 0
    THEN ListRemove(registry, archivist)
    ELSE SubSeq(registry, 1, Len(registry) - 1)

\* `if archivist in self._archivists: self._archivists.remove(archivist)`
Removed(registry, archivist) ==
    IF Registrations(archivist, registry) > 0
    THEN ListRemove(registry, archivist)
    ELSE registry

\* ForthRepl.remove_archivist(archivist)
remove_archivist(archivist) ==
    /\ archivists' = Removed(archivists, archivist)
    /\ call' = Returned("remove_archivist", <<archivist>>, "None", NoCall)
    /\ trace' = <<>>
    /\ UNCHANGED <<comm_port, connected, current_response, character_queue,
                   events, failing, send_calls, fed, attended, calls>>
    /\ UNCHANGED other_vars

\* ------------------------------------------------------------------ the port
\* What the port's connect() may do: return True, return False (SerialAdapter
\* on a SerialException) or raise.
ConnectOutcomes == {"True", "False", "raise"}

\* What a connected port's send_command may do: write the command, or raise.
SendOutcomes == {"ok", "raise"}

\* self._comm_port.connect(): the value returned, the exception raised (NoError
\* when it returns) and is_connected() afterwards. The placeholder port raises.
Connect(outcome) ==
    IF comm_port = "null"
    THEN [ret |-> "raise", exc |-> NotSetError, connected |-> connected]
    ELSE CASE outcome = "True" -> [ret |-> "True", exc |-> NoError, connected |-> TRUE]
           [] outcome = "False" -> [ret |-> "False", exc |-> NoError, connected |-> connected]
           [] OTHER -> [ret |-> "raise", exc |-> ConnectError, connected |-> connected]

\* self._comm_port.send_command(command): the exception raised, NoError when
\* the command was written.
SendCommand(outcome) ==
    IF comm_port = "null" THEN NotSetError
    ELSE IF ~connected THEN NotConnectedError
    ELSE IF outcome = "raise" THEN WriteError
    ELSE NoError

\* ForthRepl.set_communication_port(communication_port): the port is replaced,
\* whatever port the engine had and whether or not that one was connected;
\* nothing is called on either port and no event is recorded. is_connected is
\* what the new port's is_connected() answers.
set_communication_port(is_connected) ==
    /\ comm_port' = "port"
    /\ connected' = is_connected
    /\ call' = Returned("set_communication_port", <<>>, "None", NoCall)
    /\ trace' = <<>>
    /\ UNCHANGED <<archivists, current_response, character_queue, events,
                   failing, send_calls, fed, attended, calls>>
    /\ UNCHANGED other_vars

\* ------------------------------------------------------------------ lifecycle
\* A handler that returns False without recording the error.
StartFailedUnrecorded(error, log, port) ==
    [log |-> log, call |-> Returned("start", <<>>, "False", port), trace |-> <<>>]

\* A handler that records the error and lets the exception reach the caller.
StartFailedReraised(error, log, port) ==
    [log |-> Notify(SystemError(error), archivists, log).log,
     call |-> Raised("start", <<>>, error, port),
     trace |-> Deliveries(SystemError(error), archivists, port = "True" \/ connected)]

\* The `except Exception as e` handler of start(): the error is recorded by the
\* archivists and start() returns False, unless an archivist raises in turn.
\* port is what connect() answered.
StartFailed(error, log, port) ==
    LET n == Notify(SystemError(error), archivists, log)
    IN [log |-> n.log,
        call |-> IF n.raised THEN Raised("start", <<>>, ArchivistError, port)
                 ELSE Returned("start", <<>>, "False", port),
        trace |-> Deliveries(SystemError(error), archivists, port = "True" \/ connected)]

\* The body of start() once connect() has answered with r: the archivists'
\* logs, the outcome of start() and the calls made after connect().
StartResult(r) ==
    IF r.exc # NoError THEN StartFailed(r.exc, events, r.exc)
    ELSE IF r.ret = "True"
         THEN LET n == Notify(ConnectionOpened, archivists, events)
                  opened == Deliveries(ConnectionOpened, archivists, r.connected)
                  f == StartFailed(ArchivistError, n.log, r.ret)
              IN IF n.raised
                 THEN [log |-> f.log, call |-> f.call, trace |-> opened \o f.trace]
                 ELSE [log |-> n.log, call |-> Returned("start", <<>>, "True", r.ret),
                       trace |-> opened]
         ELSE [log |-> events, call |-> Returned("start", <<>>, r.ret, r.ret),
               trace |-> <<>>]

\* ForthRepl.start()
start(outcome) ==
    /\ calls < MaxCalls
    /\ LET r == Connect(outcome)
           s == StartResult(r)
       IN /\ connected' = r.connected
          /\ events' = s.log
          /\ call' = s.call
          /\ trace' = <<PortCall("connect", connected)>> \o s.trace
    /\ calls' = calls + 1
    /\ UNCHANGED <<comm_port, archivists, current_response, character_queue,
                   failing, send_calls, fed, attended>>
    /\ UNCHANGED other_vars

\* A stop() that notifies the archivists and leaves the port connected.
ClosingWithoutDisconnect(registry, raised) ==
    Deliveries(ConnectionClosed, registry, connected)

\* A stop() that disconnects first and notifies the archivists afterwards.
ClosingDisconnectFirst(registry, raised) ==
    <<PortCall("disconnect", connected)>> \o Deliveries(ConnectionClosed, registry, FALSE)

\* The calls stop() makes once is_connected() answered True: the archivists are
\* notified while the port is still connected, then disconnect() is called
\* (not reached when an archivist raised).
Closing(registry, raised) ==
    Deliveries(ConnectionClosed, registry, connected)
        \o IF raised THEN <<>> ELSE <<PortCall("disconnect", connected)>>

\* A stop() that acts whatever the port reports.
IsConnectedAssumed == TRUE

\* `if self._comm_port.is_connected():` on a port that was set.
IsConnected == connected

\* ForthRepl.stop()
stop ==
    /\ calls < MaxCalls
    /\ IF comm_port = "null"
       THEN /\ call' = Raised("stop", <<>>, NotSetError, NotSetError)
            /\ trace' = <<PortCall("is_connected", connected)>>
            /\ UNCHANGED <<connected, events>>
       ELSE IF IsConnected
            THEN LET n == Notify(ConnectionClosed, archivists, events)
                 IN /\ events' = n.log
                    /\ connected' = IF n.raised THEN connected ELSE FALSE
                    /\ call' = IF n.raised THEN Raised("stop", <<>>, ArchivistError, NoCall)
                                ELSE Returned("stop", <<>>, "None", "None")
                    /\ trace' = <<PortCall("is_connected", connected)>>
                                    \o Closing(archivists, n.raised)
            ELSE /\ call' = Returned("stop", <<>>, "None", NoCall)
                 /\ trace' = <<PortCall("is_connected", connected)>>
                 /\ UNCHANGED <<connected, events>>
    /\ calls' = calls + 1
    /\ UNCHANGED <<comm_port, archivists, current_response, character_queue,
                   failing, send_calls, fed, attended>>
    /\ UNCHANGED other_vars

\* ------------------------------------------------------------------ commands
\* An exit test that compares the command without lower-casing it.
IsExitExact(command) == command = <<"e", "x", "i", "t">>

\* `if command.lower() == 'exit': return`
IsExit(command) == Lower(command) = <<"e", "x", "i", "t">>

\* A normalization that appends the terminator to every command.
NormalizeAlways(command) == Append(command, "\n")

\* `if not command.endswith('\n'): command += '\n'`
Normalize(command) == IF EndsWithNewline(command) THEN command ELSE Append(command, "\n")

\* An engine that records the command after the terminator was appended.
RecordedAfterNormalize(command) ==
    IF EndsWithNewline(command) THEN command ELSE Append(command, "\n")

\* The command the archivists record: `archivist.record_user_command(command)`
\* runs before the terminator is appended.
RecordedCommand(command) == command

\* A handler that records the error and returns normally.
SendFailedSwallowed(error, log, command) ==
    [log |-> Notify(SystemError(error), archivists, log).log,
     call |-> Returned("process_command", command, "None", error),
     trace |-> Deliveries(SystemError(error), archivists, connected)]

\* The `except Exception as e` handler of process_command(): the error is
\* recorded by the archivists and the exception is raised again (an archivist
\* that raises in the handler replaces it by its own).
SendFailed(error, log, command) ==
    LET e == Notify(SystemError(error), archivists, log)
    IN [log |-> e.log,
        call |-> Raised("process_command", command,
                        IF e.raised THEN ArchivistError ELSE error, error),
        trace |-> Deliveries(SystemError(error), archivists, connected)]

\* A process_command that sends first and records the USER_COMMAND afterwards.
AttemptSendFirst(recorded, sent) == sent \o recorded

\* The order of process_command's calls: the loop that records the USER_COMMAND
\* runs before `self._comm_port.send_command(command)` is called.
Attempt(recorded, sent) == recorded \o sent

\* ForthRepl.process_command(command)
process_command(command, outcome) ==
    /\ calls < MaxCalls
    /\ calls' = calls + 1
    /\ IF IsExit(command)
       THEN /\ call' = Returned("process_command", command, "None", NoCall)
            /\ trace' = <<>>
            /\ UNCHANGED <<events, send_calls>>
       ELSE LET n == Notify(UserCommand(RecordedCommand(command)), archivists, events)
                recorded == Deliveries(UserCommand(RecordedCommand(command)),
                                       archivists, connected)
                exc == SendCommand(outcome)
                f == SendFailed(exc, n.log, command)
            IN IF n.raised
               THEN /\ events' = n.log
                    /\ call' = Raised("process_command", command, ArchivistError, NoCall)
                    /\ trace' = recorded
                    /\ UNCHANGED send_calls
               ELSE /\ send_calls' = Append(send_calls, Normalize(command))
                    /\ IF exc = NoError
                       THEN /\ events' = n.log
                            /\ call' = Returned("process_command", command, "None", "None")
                            /\ trace' = Attempt(recorded,
                                                 <<PortCall("send_command", connected)>>)
                       ELSE /\ events' = f.log
                            /\ call' = f.call
                            /\ trace' = Attempt(recorded,
                                                 <<PortCall("send_command", connected)>>)
                                            \o f.trace
    /\ UNCHANGED <<comm_port, connected, archivists, current_response, character_queue,
                   failing, fed, attended>>
    /\ UNCHANGED other_vars

\* ------------------------------------------------------------------ behaviours
\* ForthRepl.__init__ with a port that is not connected and archivists that work.
Init ==
    /\ comm_port = "null"
    /\ connected = FALSE
    /\ archivists = <<>>
    /\ current_response = <<>>
    /\ character_queue = <<>>
    /\ events = [a \in Archivists |-> <<>>]
    /\ failing = {}
    /\ send_calls = <<>>
    /\ call = Returned("__init__", <<>>, "None", NoCall)
    /\ trace = <<>>
    /\ fed = <<>>
    /\ attended = Archivists
    /\ calls = 0
    /\ Idle

\* The caller's flow: configuration at any time and with any port,
\* registration (by a caller that never registers an archivist twice),
\* lifecycle and commands.
Next ==
    \/ \E is_connected \in BOOLEAN : set_communication_port(is_connected)
    \/ \E archivist \in Archivists :
           Registrations(archivist, archivists) = 0 /\ add_archivist(archivist)
    \/ \E archivist \in Archivists : remove_archivist(archivist)
    \/ \E outcome \in ConnectOutcomes : start(outcome)
    \/ stop
    \/ \E command \in Commands, outcome \in SendOutcomes : process_command(command, outcome)

Spec == Init /\ [][Next]_vars

\* The reader's flow: characters arrive while archivists come and go.
NextFraming ==
    \/ \E archivist \in Archivists : add_archivist(archivist)
    \/ \E archivist \in Archivists : remove_archivist(archivist)
    \/ \E char \in Chars : handle_character(char)

SpecFraming == Init /\ [][NextFraming]_vars

\* The inputs of a short session with repeated registrations: a command that
\* is not the exit word, an ordinary character and a terminator.
SessionCommands == {<<"2">>}
SessionChars == {"a", "\n"}

\* How many start, stop, process_command and handle_character calls were made.
Operations == calls + Len(fed)

\* ForthRepl.__init__ with archivists of which any may be one that raises.
InitSinks ==
    /\ comm_port = "null"
    /\ connected = FALSE
    /\ archivists = <<>>
    /\ current_response = <<>>
    /\ character_queue = <<>>
    /\ events = [a \in Archivists |-> <<>>]
    /\ failing \in SUBSET Archivists
    /\ send_calls = <<>>
    /\ call = Returned("__init__", <<>>, "None", NoCall)
    /\ trace = <<>>
    /\ fed = <<>>
    /\ attended = Archivists
    /\ calls = 0
    /\ Idle

\* Both flows in one short session in which any archivist may be one that
\* raises (the caller registers no archivist twice, and the ports it passes to
\* set_communication_port are not connected).
NextSinks ==
    \/ set_communication_port(FALSE)
    \/ \E archivist \in Archivists :
           Registrations(archivist, archivists) = 0 /\ add_archivist(archivist)
    \/ \E archivist \in Archivists : remove_archivist(archivist)
    \/ \E outcome \in ConnectOutcomes : Operations < MaxOps /\ start(outcome)
    \/ Operations < MaxOps /\ stop
    \/ \E command \in Commands, outcome \in SendOutcomes :
           Operations < MaxOps /\ process_command(command, outcome)
    \/ \E char \in Chars : Operations < MaxOps /\ handle_character(char)

SpecSinks == InitSinks /\ [][NextSinks]_vars

\* Both flows in one short session of a configured engine in which an
\* archivist may be registered any number of times (the archivists work).
NextRegistry ==
    \/ \E archivist \in Archivists : add_archivist(archivist)
    \/ \E archivist \in Archivists : remove_archivist(archivist)
    \/ \E outcome \in ConnectOutcomes : Operations < MaxOps /\ start(outcome)
    \/ Operations < MaxOps /\ stop
    \/ \E command \in SessionCommands, outcome \in SendOutcomes :
           Operations < MaxOps /\ process_command(command, outcome)
    \/ \E char \in SessionChars : Operations < MaxOps /\ handle_character(char)

\* ForthRepl() and set_communication_port(port) with a port that is not
\* connected: the engine is configured, nothing else has happened.
InitConfigured ==
    /\ comm_port = "port"
    /\ connected = FALSE
    /\ archivists = <<>>
    /\ current_response = <<>>
    /\ character_queue = <<>>
    /\ events = [a \in Archivists |-> <<>>]
    /\ failing = {}
    /\ send_calls = <<>>
    /\ call = Returned("set_communication_port", <<>>, "None", NoCall)
    /\ trace = <<>>
    /\ fed = <<>>
    /\ attended = Archivists
    /\ calls = 0
    /\ Idle

SpecRegistry == InitConfigured /\ [][NextRegistry]_vars

\* ------------------------------------------------------------------ observations
\* The responses archivist a recorded, in order (SYSTEM_RESPONSE events only).
RECURSIVE ResponsesIn(_)
ResponsesIn(log) ==
    IF log = <<>> THEN <<>>
    ELSE IF Head(log).type = "SYSTEM_RESPONSE"
         THEN <<Head(log).data>> \o ResponsesIn(Tail(log))
         ELSE ResponsesIn(Tail(log))

Responses(a) == ResponsesIn(events[a])

\* s holds neither '\n' nor '\r'.
Plain(s) == \A i \in 1..Len(s) : s[i] # "\n" /\ s[i] # "\r"

\* s without its last n characters.
DropLast(s, n) == SubSeq(s, 1, Len(s) - n)

\* s ends with the characters of t.
EndsWith(s, t) == Len(s) >= Len(t) /\ SubSeq(s, Len(s) - Len(t) + 1, Len(s)) = t

\* The archivists that were registered exactly once at every flush so far and
\* still are: the ones that listened to the whole run.
Listening == {a \in attended : Registrations(a, archivists) = 1}

\* The pieces of s between its '\n' characters; s ends with '\n' or is empty.
RECURSIVE NewlineSplit(_, _)
NewlineSplit(s, piece) ==
    IF s = <<>> THEN <<>>
    ELSE IF Head(s) = "\n" THEN <<piece>> \o NewlineSplit(Tail(s), <<>>)
         ELSE NewlineSplit(Tail(s), Append(piece, Head(s)))

\* s is k >= 1 non-empty lines without '\r', each followed by '\n'.
NewlineTerminatedLines(s) ==
    /\ s # <<>>
    /\ s[Len(s)] = "\n"
    /\ \A i \in 1..Len(s) : s[i] # "\r"
    /\ \A i \in 1..Len(NewlineSplit(s, <<>>)) : NewlineSplit(s, <<>>)[i] # <<>>

\* ------------------------------------------------------------------ claims
\* C1 (as claimed): for every string S without '\n' and '\r', the empty one
\* included, after S and then '\n' were fed one character at a time each
\* listening archivist holds exactly one SYSTEM_RESPONSE, equal to S.
C1_AnyLineYieldsOneResponse ==
    (EndsWith(fed, <<"\n">>) /\ Plain(DropLast(fed, 1)))
        => \A a \in Listening : Responses(a) = <<DropLast(fed, 1)>>

\* C1 (amended): for every non-empty string S without '\n' and '\r', after S
\* and then '\n' were fed one character at a time each listening archivist
\* holds exactly one SYSTEM_RESPONSE, equal to S; for the empty S it holds none.
C1_LineYieldsOneResponse ==
    (EndsWith(fed, <<"\n">>) /\ Plain(DropLast(fed, 1)))
        => \A a \in Listening :
              Responses(a) = IF Len(fed) > 1 THEN <<DropLast(fed, 1)>> ELSE <<>>

\* C1 witness: "ab" and '\n' were fed and both archivists listened throughout.
C1_Witness ==
    /\ fed = <<"a", "b", "\n">>
    /\ Listening = Archivists
    /\ \A a \in Archivists : Responses(a) = << <<"a", "b">> >>

\* C2: after k non-empty lines, each followed by '\n', were fed character by
\* character, each listening archivist holds exactly the k lines as its
\* SYSTEM_RESPONSE events, in the order fed.
C2_LinesInOrder ==
    NewlineTerminatedLines(fed)
        => \A a \in Listening : Responses(a) = NewlineSplit(fed, <<>>)

\* C2 witness: the two lines "a" and "b" were fed and recorded in that order.
C2_Witness ==
    /\ fed = <<"a", "\n", "b", "\n">>
    /\ Listening = Archivists
    /\ \A a \in Archivists : Responses(a) = << <<"a">>, <<"b">> >>

\* C3: a non-empty line terminated by '\r' '\n', or by a lone '\r', yields
\* exactly one SYSTEM_RESPONSE (the line), not two.
C3_CarriageReturnNewlineOnce ==
    \A t \in {<<"\r", "\n">>, <<"\r">>} :
        (EndsWith(fed, t) /\ Len(fed) > Len(t) /\ Plain(DropLast(fed, Len(t))))
            => \A a \in Listening : Responses(a) = <<DropLast(fed, Len(t))>>

\* C3 witness: "ab" was fed, then '\r', then '\n'; one response was recorded.
C3_Witness ==
    /\ fed = <<"a", "b", "\r", "\n">>
    /\ Listening = Archivists
    /\ \A a \in Archivists : Len(Responses(a)) = 1

\* ------------------------------------------------------------------ one call
\* This step is a call of op (start, stop or process_command).
StepOf(op) == calls' = calls + 1 /\ call'.op = op

\* The events archivist a stored in this step.
NewEvents(a) == SubSeq(events'[a], Len(events[a]) + 1, Len(events'[a]))

\* The events of one type in a log, in order.
RECURSIVE OfType(_, _)
OfType(type, log) ==
    IF log = <<>> THEN <<>>
    ELSE IF Head(log).type = type
         THEN <<Head(log)>> \o OfType(type, Tail(log))
         ELSE OfType(type, Tail(log))

\* Archivist a is in the registry.
Registered(a) == \E i \in 1..Len(archivists) : archivists[i] = a

\* The word 'exit' in any letter case.
ExitWord(s) ==
    /\ Len(s) = 4
    /\ s[1] \in {"e", "E"}
    /\ s[2] \in {"x", "X"}
    /\ s[3] \in {"i", "I"}
    /\ s[4] \in {"t", "T"}

\* str.strip(): s without leading and trailing whitespace.
Whitespace == {" ", "\t", "\n", "\r"}

RECURSIVE StripLeft(_)
StripLeft(s) ==
    IF s # <<>> /\ Head(s) \in Whitespace THEN StripLeft(Tail(s)) ELSE s

RECURSIVE StripRight(_)
StripRight(s) ==
    IF s # <<>> /\ s[Len(s)] \in Whitespace THEN StripRight(DropLast(s, 1)) ELSE s

Strip(s) == StripRight(StripLeft(s))

\* C4: a process_command call with a command that is not the exit word, made
\* while the port is connected, makes exactly one send_command call; its
\* payload is the command, with '\n' appended iff it did not end with '\n'.
C4_SendsOnceNormalized ==
    [][(StepOf("process_command") /\ ~ExitWord(call'.arg) /\ comm_port = "port" /\ connected)
          => send_calls' = Append(send_calls,
                                  IF EndsWith(call'.arg, <<"\n">>)
                                  THEN call'.arg
                                  ELSE call'.arg \o <<"\n">>)]_vars

\* C4 witness: connected, "2\n" was processed; it made one send_command call
\* with payload "2\n", no second terminator appended.
C4_Witness ==
    /\ connected
    /\ call.op = "process_command" /\ call.arg = <<"2", "\n">> /\ call.port = "None"
    /\ archivists = <<"a1">>
    /\ OfType("USER_COMMAND", events["a1"]) = <<UserCommand(<<"2", "\n">>)>>
    /\ send_calls = << <<"2", "\n">> >>

\* This step is a process_command call whose send_command wrote the command.
Transmits ==
    /\ StepOf("process_command")
    /\ Len(send_calls') = Len(send_calls) + 1
    /\ call'.port = "None"

\* C5: in every process_command call that transmits, each
\* registered archivist records one USER_COMMAND whose command equals the
\* string passed to send_command.
C5_RecordedEqualsTransmitted ==
    [][Transmits
          => \A a \in Archivists :
                Registered(a) =>
                    OfType("USER_COMMAND", NewEvents(a))
                        = <<UserCommand(send_calls'[Len(send_calls')])>>]_vars

\* C6: in every process_command call with a command c that is not the exit
\* word, each registered archivist records exactly one USER_COMMAND, whose
\* command is c as passed; an archivist that is not registered records none.
C6_RecordsCommandAsPassed ==
    [][(StepOf("process_command") /\ ~ExitWord(call'.arg))
          => \A a \in Archivists :
                OfType("USER_COMMAND", NewEvents(a))
                    = IF Registered(a) THEN <<UserCommand(call'.arg)>> ELSE <<>>]_vars

\* C6 witness: both archivists are registered and recorded "2" as passed.
C6_Witness ==
    /\ call.op = "process_command" /\ call.arg = <<"2">>
    /\ Registered("a1") /\ Registered("a2")
    /\ \A a \in Archivists : OfType("USER_COMMAND", events[a]) = <<UserCommand(<<"2">>)>>

\* C7: a process_command call with the word 'exit' in any letter case makes no
\* send_command call and records no event in any archivist.
C7_ExitSendsNothing ==
    [][(StepOf("process_command") /\ ExitWord(call'.arg))
          => (send_calls' = send_calls /\ events' = events)]_vars

\* C7 witness: 'ExiT' was processed on a connected port with both archivists
\* registered; nothing was sent and no USER_COMMAND was recorded.
C7_Witness ==
    /\ connected
    /\ call.op = "process_command" /\ call.arg = <<"E", "x", "i", "T">>
    /\ Registered("a1") /\ Registered("a2")
    /\ send_calls = <<>>
    /\ \A a \in Archivists : events[a] = <<ConnectionOpened>>

\* C8: a process_command call with a command whose whitespace-trimmed,
\* lower-cased form is 'exit' makes no send_command call and records no event.
C8_TrimmedExitSendsNothing ==
    [][(StepOf("process_command") /\ ExitWord(Strip(call'.arg)))
          => (send_calls' = send_calls /\ events' = events)]_vars

\* C9: a start() call in which connect() raises returns False, leaves a
\* disconnected port disconnected, and each registered archivist records
\* exactly one event in it: a SYSTEM_ERROR with the text of the exception (so
\* no CONNECTION_OPENED).
C9_ConnectRaisesIsRecorded ==
    [][(StepOf("start") /\ call'.port \in {ConnectError, NotSetError})
          => /\ call'.result = "False"
             /\ ~connected => ~connected'
             /\ \A a \in Archivists :
                   NewEvents(a) = IF Registered(a)
                                  THEN <<SystemError(call'.port)>>
                                  ELSE <<>>]_vars

\* C9 witness: connect() raised "Connection error"; start() returned False,
\* the port is disconnected and both archivists hold the one SYSTEM_ERROR.
C9_Witness ==
    /\ call.op = "start" /\ call.result = "False" /\ call.port = ConnectError
    /\ ~connected
    /\ Registered("a1") /\ Registered("a2")
    /\ \A a \in Archivists : events[a] = <<SystemError(ConnectError)>>

\* C10: whenever start() returns False, each registered archivist recorded
\* exactly one SYSTEM_ERROR during the call.
C10_FalseStartIsRecorded ==
    [][(StepOf("start") /\ call'.result = "False")
          => \A a \in Archivists :
                Registered(a) => Len(OfType("SYSTEM_ERROR", NewEvents(a))) = 1]_vars

\* ------------------------------------------------------------------ after a call
\* Every engine method sets `call` and `trace`, so a state with call.op = op is
\* the state right after that call: `archivists` is the registry the call saw.

\* No registered archivist is one that raises.
SinksWork == \A a \in Archivists : Registered(a) => a \notin failing

\* The last k events of a log (the whole log when it is shorter).
LastEvents(log, k) == SubSeq(log, IF Len(log) > k THEN Len(log) - k + 1 ELSE 1, Len(log))

\* The positions of a sequence of calls at which method was called.
CallsOf(method, made) == {i \in 1..Len(made) : made[i].method = method}

\* The exceptions a port's send_command raises.
SendErrors == {WriteError, NotConnectedError, NotSetError}

\* C11: whatever the port's connect() does (returns True, returns False, raises,
\* or is the placeholder's connect, which raises), a start() call made while no
\* registered archivist raises returns True or False and raises nothing.
C11_StartReturnsBoolean ==
    (call.op = "start" /\ SinksWork)
        => (call.result \in {"True", "False"} /\ call.error = NoError)

\* C11 witness: start() on the placeholder port, with a working archivist
\* registered and a raising one that is not: the NotImplementedError was
\* recorded and start() returned False.
C11_Witness ==
    /\ call.op = "start" /\ call.port = NotSetError /\ call.result = "False"
    /\ comm_port = "null"
    /\ failing = {"a2"}
    /\ archivists = <<"a1">>
    /\ events["a1"] = <<SystemError(NotSetError)>>

\* C12: after a process_command call in which send_command raised, the call
\* has raised that same exception, and each registered archivist was called
\* with exactly one SYSTEM_ERROR, carrying the exception's text, which it
\* recorded right after the USER_COMMAND of the call.
C12_SendFailureRecordedAndRaised ==
    (call.op = "process_command" /\ call.port \in SendErrors)
        => /\ call.result = "raised"
           /\ call.error = call.port
           /\ \A a \in Archivists :
                 /\ Cardinality({i \in CallsOf("record_event", trace) :
                                    /\ trace[i].target = a
                                    /\ trace[i].event.type = "SYSTEM_ERROR"})
                       = IF Registered(a) THEN 1 ELSE 0
                 /\ Registered(a)
                       => LastEvents(events[a], 2)
                            = <<UserCommand(call.arg), SystemError(call.port)>>

\* C12 witness: on a connected port send_command raised "Write failed" for the
\* command "2"; process_command raised it and both archivists recorded it.
C12_Witness ==
    /\ call.op = "process_command" /\ call.arg = <<"2">>
    /\ call.port = WriteError /\ call.error = WriteError
    /\ connected
    /\ Registered("a1") /\ Registered("a2")
    /\ \A a \in Archivists :
          events[a] = <<ConnectionOpened, UserCommand(<<"2">>), SystemError(WriteError)>>

\* C13: when start() has returned True and stop() is called next, each
\* registered archivist has recorded CONNECTION_OPENED and then
\* CONNECTION_CLOSED, the two calls made exactly one disconnect() call, and the
\* port is disconnected.
C13_OpenedThenClosed ==
    [][(call.op = "start" /\ call.result = "True" /\ StepOf("stop"))
          => /\ \A a \in Archivists :
                   Registered(a)
                       => /\ Len(events'[a]) >= 2
                          /\ LastEvents(events'[a], 2) = <<ConnectionOpened, ConnectionClosed>>
             /\ Cardinality(CallsOf("disconnect", trace \o trace')) = 1
             /\ ~connected']_vars

\* C13 witness: start() and then stop() were called with both archivists
\* registered: each holds CONNECTION_OPENED, CONNECTION_CLOSED.
C13_Witness ==
    /\ call.op = "stop" /\ call.port = "None"
    /\ calls = 2
    /\ ~connected
    /\ Registered("a1") /\ Registered("a2")
    /\ \A a \in Archivists : events[a] = <<ConnectionOpened, ConnectionClosed>>

\* C14: in a stop() call that calls disconnect(), every registered archivist
\* was called with CONNECTION_CLOSED before disconnect(), every record_event
\* call of stop() was made while the port still reported connected, and each
\* working archivist holds CONNECTION_CLOSED as its last event.
C14_ClosedBeforeDisconnect ==
    call.op = "stop"
        => \A d \in CallsOf("disconnect", trace) :
              /\ \A a \in Archivists :
                    Registered(a)
                        => /\ \E i \in 1..(d - 1) :
                                 trace[i] = RecordEvent(a, ConnectionClosed, TRUE)
                           /\ events[a] # <<>>
                           /\ LastEvents(events[a], 1) = <<ConnectionClosed>>
              /\ \A i \in CallsOf("record_event", trace) :
                    i < d /\ trace[i].connected /\ trace[i].event = ConnectionClosed

\* C14 witness: stop() asked is_connected(), notified a1 and a2 while the port
\* was connected, and called disconnect() last.
C14_Witness ==
    /\ call.op = "stop"
    /\ archivists = <<"a1", "a2">>
    /\ trace = <<PortCall("is_connected", TRUE),
                 RecordEvent("a1", ConnectionClosed, TRUE),
                 RecordEvent("a2", ConnectionClosed, TRUE),
                 PortCall("disconnect", TRUE)>>
    /\ ~connected

\* C15: a stop() call made while the port that was set reports is_connected()
\* False asks the port, calls neither record_event nor disconnect(), returns
\* None, and leaves the archivists' logs, the registry, the pending buffer and
\* the character queue as they were.
C15_StopWhenDisconnectedDoesNothing ==
    [][(StepOf("stop") /\ comm_port = "port" /\ ~connected)
          => /\ trace' = <<PortCall("is_connected", FALSE)>>
             /\ call'.result = "None"
             /\ events' = events
             /\ archivists' = archivists
             /\ current_response' = current_response
             /\ character_queue' = character_queue
             /\ ~connected']_vars

\* C15 witness: 'a' is pending and queued, a1 is registered, the port is set
\* and not connected; stop() returned and a1 recorded nothing.
C15_Witness ==
    /\ call.op = "stop" /\ call.result = "None" /\ call.port = NoCall
    /\ comm_port = "port" /\ ~connected
    /\ archivists = <<"a1">>
    /\ "a1" \notin failing
    /\ current_response = <<"a">>
    /\ character_queue = <<"a">>
    /\ events["a1"] = <<>>

\* ------------------------------------------------------------------ dispatch
\* The events with which the call of this step called some archivist.
DispatchedInStep == {trace'[i].event : i \in CallsOf("record_event", trace')}

\* The archivists called with event in a sequence of calls, in the order called.
RECURSIVE TargetsOf(_, _)
TargetsOf(event, made) ==
    IF made = <<>> THEN <<>>
    ELSE IF Head(made).method = "record_event" /\ Head(made).event = event
         THEN <<Head(made).target>> \o TargetsOf(event, Tail(made))
         ELSE TargetsOf(event, Tail(made))

\* How many times event is in a log.
Count(event, log) == Cardinality({i \in 1..Len(log) : log[i] = event})

\* The events the engine dispatches outside its error handlers.
OrdinaryKinds == {"USER_COMMAND", "SYSTEM_RESPONSE", "CONNECTION_OPENED", "CONNECTION_CLOSED"}

\* This step is a call of remove_archivist(a) or of add_archivist(a).
RemoveStep(a) == call'.op = "remove_archivist" /\ call'.arg = <<a>>
AddStep(a) == call'.op = "add_archivist" /\ call'.arg = <<a>>

\* C16: when the last call called a raising archivist with a USER_COMMAND,
\* SYSTEM_RESPONSE, CONNECTION_OPENED or CONNECTION_CLOSED event while an
\* archivist that works was registered too, the call did not raise, and every
\* registered archivist that works was called with that event.
C16_RaisingSinkIsIsolated ==
    \A i \in CallsOf("record_event", trace) :
        (/\ trace[i].target \in failing
         /\ trace[i].event.type \in OrdinaryKinds
         /\ \E a \in Archivists : Registered(a) /\ a \notin failing)
            => /\ call.result # "raised"
               /\ \A a \in Archivists :
                     (Registered(a) /\ a \notin failing)
                         => \E j \in CallsOf("record_event", trace) :
                               trace[j].target = a /\ trace[j].event = trace[i].event

\* C17: in every call made while no registered archivist raises, each event
\* dispatched is passed to the archivists in the order of the registry, one
\* record_event call per registration; each archivist stores it once per
\* registration and stores nothing that was not dispatched.
C17_DeliveredInRegistrationOrder ==
    [][SinksWork
          => /\ \A e \in DispatchedInStep :
                   /\ TargetsOf(e, trace') = archivists
                   /\ \A a \in Archivists :
                         Count(e, NewEvents(a)) = Registrations(a, archivists)
             /\ \A a \in Archivists :
                   \A k \in 1..Len(NewEvents(a)) : NewEvents(a)[k] \in DispatchedInStep]_vars

\* C17 witness: a2 was registered before a1; process_command("2") called a2 and
\* then a1 with the USER_COMMAND, then the port, and each stored it once.
C17_Witness ==
    /\ failing = {}
    /\ archivists = <<"a2", "a1">>
    /\ call.op = "process_command"
    /\ trace = <<RecordEvent("a2", UserCommand(<<"2">>), TRUE),
                 RecordEvent("a1", UserCommand(<<"2">>), TRUE),
                 PortCall("send_command", TRUE)>>
    /\ \A a \in Archivists : events[a] = <<ConnectionOpened, UserCommand(<<"2">>)>>

\* C18: remove_archivist(a) of an archivist registered once leaves it out of
\* the registry; in every later call (start, stop, process_command,
\* handle_character) an archivist that is not registered is not called and
\* stores nothing, while each registered archivist stores every event the
\* call dispatches (no registered archivist being one that raises).
C18_RemovedSinkReceivesNothing ==
    [][\A a \in Archivists :
          /\ (RemoveStep(a) /\ Registrations(a, archivists) = 1)
                => Registrations(a, archivists') = 0
          /\ ~Registered(a)
                => /\ NewEvents(a) = <<>>
                   /\ \A i \in CallsOf("record_event", trace') : trace'[i].target # a
          /\ (Registered(a) /\ SinksWork)
                => \A e \in DispatchedInStep : Count(e, NewEvents(a)) >= 1]_vars

\* C18 witness: a1 and a2 both recorded the CONNECTION_OPENED of start(); a1
\* was removed; the USER_COMMAND of the next call reached a2 only.
C18_Witness ==
    /\ failing = {}
    /\ call.op = "process_command"
    /\ archivists = <<"a2">>
    /\ events["a1"] = <<ConnectionOpened>>
    /\ events["a2"] = <<ConnectionOpened, UserCommand(<<"2">>)>>

\* C19: remove_archivist(a) of an archivist that is not registered returns
\* None, raises nothing, and leaves the registry (members and order) and the
\* archivists' logs unchanged.
C19_RemoveUnregisteredIsNoOp ==
    [][\A a \in Archivists :
          (RemoveStep(a) /\ ~Registered(a))
              => /\ archivists' = archivists
                 /\ call'.result = "None"
                 /\ call'.error = NoError
                 /\ events' = events]_vars

\* C19 witness: remove_archivist(a2) has returned and the registry holds a1
\* twice; the registry being full, a2 was not in it when the call was made.
C19_Witness ==
    /\ call = Returned("remove_archivist", <<"a2">>, "None", NoCall)
    /\ Len(archivists) = MaxArchivists
    /\ \A i \in 1..Len(archivists) : archivists[i] = "a1"

\* C20: add_archivist(a) adds one registration also when a is registered
\* already; an archivist registered twice stores every dispatched event twice;
\* one remove_archivist(a) then leaves one registration, and it stores every
\* dispatched event once (a being an archivist that works).
C20_TwiceRegisteredReceivesTwice ==
    [][\A a \in Archivists :
          /\ AddStep(a) => Registrations(a, archivists') = Registrations(a, archivists) + 1
          /\ (RemoveStep(a) /\ Registrations(a, archivists) = 2)
                => Registrations(a, archivists') = 1
          /\ (SinksWork /\ Registrations(a, archivists) \in {1, 2})
                => \A e \in DispatchedInStep :
                      Count(e, NewEvents(a)) = Registrations(a, archivists)]_vars

\* C20 witness: a1 was registered twice when start() dispatched
\* CONNECTION_OPENED and once, after one remove_archivist(a1), when
\* process_command("2") dispatched the USER_COMMAND.
C20_Witness ==
    /\ "a1" \notin failing
    /\ call.op = "process_command"
    /\ archivists = <<"a1">>
    /\ events["a1"] = <<ConnectionOpened, ConnectionOpened, UserCommand(<<"2">>)>>

\* ------------------------------------------------------------------ restart
\* How many start, stop and handle_character calls a session with a restart makes.
MaxRestartOps == 4

\* A connected session that receives, disconnects and connects again: the
\* archivists work and are registered at most once.
NextRestart ==
    \/ \E archivist \in Archivists :
           Registrations(archivist, archivists) = 0 /\ add_archivist(archivist)
    \/ \E outcome \in ConnectOutcomes : Operations < MaxRestartOps /\ start(outcome)
    \/ Operations < MaxRestartOps /\ stop
    \/ \E char \in SessionChars : Operations < MaxRestartOps /\ handle_character(char)

\* The engine right after ForthRepl(), set_communication_port(port) and a start()
\* that returned True, no archivist registered yet; the history starts here.
InitStarted ==
    /\ comm_port = "port"
    /\ connected = TRUE
    /\ archivists = <<>>
    /\ current_response = <<>>
    /\ character_queue = <<>>
    /\ events = [a \in Archivists |-> <<>>]
    /\ failing = {}
    /\ send_calls = <<>>
    /\ call = Returned("start", <<>>, "True", "True")
    /\ trace = <<PortCall("connect", FALSE)>>
    /\ fed = <<>>
    /\ attended = Archivists
    /\ calls = 0
    /\ Idle

SpecRestart == InitStarted /\ [][NextRestart]_vars

\* The last call was a stop() that disconnected the port.
Stopped == call.op = "stop" /\ CallsOf("disconnect", trace) # {}

\* C21: when a stop() that disconnected the port is followed by a start() that
\* returns True, the pending-line buffer is empty after the start() and the
\* character queue holds no character received before the stop().
C21_NothingSurvivesRestart ==
    [][(Stopped /\ StepOf("start") /\ call'.result = "True")
          => (current_response' = <<>> /\ character_queue' = <<>>)]_vars

\* ------------------------------------------------------------------ the queue
\* A consumer that takes the newest character of the queue.
GetNewest(queue) == [item |-> queue[Len(queue)], rest |-> SubSeq(queue, 1, Len(queue) - 1)]

\* Queue.get_nowait() on a queue that is not empty: the oldest item is taken.
Get(queue) == [item |-> Head(queue), rest |-> Tail(queue)]

\* `char = self._repl.character_queue.get_nowait()` of the consumer's loop
\* `while self._repl.character_queue.qsize() > 0:`; the producer may run between
\* two rounds of the loop.
get_nowait ==
    /\ character_queue # <<>>
    /\ taken' = Append(taken, Get(character_queue).item)
    /\ character_queue' = Get(character_queue).rest
    /\ UNCHANGED <<comm_port, connected, archivists, current_response, events, failing,
                   send_calls, call, trace, fed, attended, calls, adapter, handles,
                   threads>>

\* ------------------------------------------------------------------ no port set
\* type(e).__name__ of the exceptions the ports raise: every method of the
\* placeholder port raises NotImplementedError, SerialAdapter.send_command
\* raises ConnectionError when it is not connected; the others are the mock
\* ports' and archivists' plain Exception.
ErrorClass(error) ==
    CASE error = NotSetError -> "NotImplementedError"
      [] error = NotConnectedError -> "ConnectionError"
      [] error = NoError -> None
      [] OTHER -> "Exception"

\* The lifecycle events.
ConnectionKinds == {"CONNECTION_OPENED", "CONNECTION_CLOSED"}

\* C23: a start(), stop() or process_command call made while no port has been
\* set raises to its caller an error that is not the generic
\* NotImplementedError, and no archivist holds a USER_COMMAND or a connection
\* event.
C23_NotConfiguredIsReported ==
    (comm_port = "null" /\ call.op \in {"start", "stop", "process_command"})
        => /\ call.result = "raised"
           /\ ErrorClass(call.error) # "NotImplementedError"
           /\ \A a \in Archivists : \A i \in 1..Len(events[a]) :
                 events[a][i].type \notin ConnectionKinds \cup {"USER_COMMAND"}

\* ------------------------------------------------------------------ the serial adapter
\* How many connect, disconnect, send_command, receive_response and
\* clear_buffer calls are begun, and how many bytes the device sends.
MaxAdapterCalls == 2
MaxBytes == 2

\* The bytes the device sends: 'a', '\n' and 0xC3, which is no UTF-8 character
\* on its own.
Bytes == {97, 10, 195}

\* U+FFFD, the one character `errors='replace'` puts in place of a byte that
\* cannot be decoded.
ReplacementChar == "U+FFFD"

\* A decoder that raises on a byte that cannot be decoded.
DecodeStrict(byte) ==
    CASE byte = 97 -> "a"
      [] byte = 10 -> "\n"
      [] OTHER -> "UnicodeDecodeError"

\* `raw_data.decode('utf-8', errors='replace')` of the one byte read(1) returned.
Decode(byte) ==
    CASE byte = 97 -> "a"
      [] byte = 10 -> "\n"
      [] OTHER -> ReplacementChar

\* serial.Serial(port, baudrate, timeout): an open port with nothing written,
\* nothing waiting, nothing read by a reader thread (read) and nothing taken
\* by a caller's readline() or read(n) (drained); `closes` counts its close()
\* calls.
NewSerial ==
    [is_open |-> TRUE, closes |-> 0, written |-> <<>>, waiting |-> <<>>, read |-> <<>>,
     drained |-> <<>>]

\* SerialAdapter.is_connected(), for the values of _serial and of the objects.
IsOpen(a, h) == a.serial # NoHandle /\ h[a.serial].is_open

\* What the engine and the consumer of the queue hold, left alone by the adapter.
engine_vars == <<comm_port, archivists, current_response, character_queue, events,
                 failing, send_calls, call, trace, fed, attended, taken>>

\* The exceptions of the adapter: send_command's ConnectionError, Python's
\* AttributeError for an attribute of None, pyserial's PortNotOpenError.
NoneTypeError == "AttributeError"
PortNotOpenError == "PortNotOpenError"

\* Caller c is in no call.
Free(c) == threads.callers[c].pc \in {"idle", "done"}

\* Caller c is in call op at pc.
At(c, op, pc) == threads.callers[c].op = op /\ threads.callers[c].pc = pc

\* threads with caller c's frame replaced.
WithFrame(c, frame) == [threads EXCEPT !.callers[c] = frame]

\* Caller c may begin the adapter's method: it is in no call, or it is in
\* start() or stop() at the place where the engine calls that method.
Ready(c, method) ==
    \/ Free(c)
    \/ threads.callers[c].op \in {"start", "stop"} /\ threads.callers[c].pc = method

\* The method of the engine from which caller c's call op is made: None when c
\* makes the call itself.
Outer(c, op) ==
    LET f == threads.callers[c]
    IN IF f.op = op /\ ~Free(c) THEN f.outer
       ELSE IF Free(c) THEN None ELSE f.op

\* Caller c begins call op(arg) and is at pc after its first step.
Begun(c, op, arg, pc) ==
    [NoFrame EXCEPT !.op = op, !.arg = arg, !.pc = pc, !.outer = Outer(c, op)]

\* Caller c's call returns value, or raises error: to the caller, or to the
\* method of the engine that made the call.
Return(c, op, arg, value) ==
    IF Outer(c, op) = None
    THEN [NoFrame EXCEPT !.op = op, !.arg = arg, !.pc = "done", !.result = value]
    ELSE [NoFrame EXCEPT !.op = Outer(c, op), !.pc = "returned", !.result = value]
Raise(c, op, arg, error) ==
    IF Outer(c, op) = None
    THEN [NoFrame EXCEPT !.op = op, !.arg = arg, !.pc = "done", !.result = "raised",
                         !.error = error]
    ELSE [NoFrame EXCEPT !.op = Outer(c, op), !.pc = "returned", !.result = "raised",
                         !.error = error]

\* The RuntimeErrors of threading.Thread, by the method that raises them.
ThreadError ==
    [daemon |-> "cannot set daemon status of active thread",
     start |-> "threads can only be started once",
     join |-> "cannot join thread before it is started"]

\* What serial.Serial(...) may do in connect(): open the port, or raise
\* SerialException.
OpenOutcomes == {"ok", "SerialException"}

\* `self._serial is not None`, the first of the two reads of _serial that
\* is_connected() makes; the second is `self._serial.is_open`.
HasSerial(a) == a.serial # NoHandle

\* threading.Thread(target=self._read_characters): a thread that is not
\* started; once it runs it holds the object it has read from _serial (h), the
\* character it read (char), what its handle_character call read (line, the
\* index i of the loop over the registry and the archivist taken from it) and
\* the errors its `except` handler printed (caught).
NewThread ==
    [pc |-> "new", char |-> None, line |-> <<>>, i |-> 0, archivist |-> None,
     caught |-> {}, h |-> NoHandle]

\* Thread.start() was called on reader thread t.
Started(t) == threads.readers[t].pc # "new"

\* Reader thread r has left its loop, or has died of an exception raised by
\* its loop test.
Finished(r) == threads.readers[r].pc = "done"

\* Caller c evaluates `self._serial` in `self._serial.is_open`,
\* `self._serial.write(...)`, `self._serial.in_waiting`,
\* `self._serial.readline()` or `self._serial.close()`: it holds the object, or
\* None, that _serial names now (kept in h), and the attribute is then that
\* object's, whatever _serial names by then.
load_serial(c) ==
    LET use == [load_is_open |-> "is_open", load_write |-> "write",
                load_in_waiting |-> "in_waiting", load_readline |-> "readline",
                load_count |-> "count", load_close |-> "close"]
    IN /\ threads.callers[c].pc \in DOMAIN use
       /\ threads' = [threads EXCEPT !.callers[c].pc = use[threads.callers[c].pc],
                                     !.callers[c].h = adapter.serial]
       /\ UNCHANGED <<connected, calls, adapter, handles>>
       /\ UNCHANGED engine_vars

\* Caller c evaluates `self._read_thread` in `self._read_thread.daemon = True`,
\* `self._read_thread.start()` or `self._read_thread.join(timeout=1.0)`: it
\* holds the thread, or None, that _read_thread names now (kept in i).
load_read_thread(c) ==
    LET use == [load_daemon |-> "daemon", load_start |-> "start_thread",
                load_join |-> "join"]
    IN /\ threads.callers[c].pc \in DOMAIN use
       /\ threads' = [threads EXCEPT !.callers[c].pc = use[threads.callers[c].pc],
                                     !.callers[c].i = adapter.read_thread]
       /\ UNCHANGED <<connected, calls, adapter, handles>>
       /\ UNCHANGED engine_vars

\* SerialAdapter.connect(), `self._serial = serial.Serial(...)`;
\* `except SerialException: return False`.
connect_open(c, outcome) ==
    /\ Ready(c, "connect")
    /\ calls < MaxAdapterCalls
    /\ calls' = calls + 1
    /\ IF outcome = "ok"
       THEN /\ handles' = Append(handles, NewSerial)
            /\ adapter' = [adapter EXCEPT !.serial = Len(handles) + 1]
            /\ threads' = WithFrame(c, Begun(c, "connect", <<>>, "clear_stop"))
       ELSE /\ threads' = WithFrame(c, Return(c, "connect", <<>>, "False"))
            /\ UNCHANGED <<adapter, handles>>
    /\ connected' = IsOpen(adapter', handles')
    /\ UNCHANGED engine_vars

\* _start_reading_thread(): `self._stop_reading.clear()`
connect_clear_stop(c) ==
    /\ At(c, "connect", "clear_stop")
    /\ adapter' = [adapter EXCEPT !.stop_reading = FALSE]
    /\ threads' = [threads EXCEPT !.callers[c].pc = "create_thread"]
    /\ UNCHANGED <<connected, calls, handles>>
    /\ UNCHANGED engine_vars

\* `self._read_thread = threading.Thread(target=self._read_characters)`: a
\* thread that is not started yet.
connect_create_thread(c) ==
    /\ At(c, "connect", "create_thread")
    /\ adapter' = [adapter EXCEPT !.read_thread = Len(threads.readers) + 1]
    /\ threads' = [threads EXCEPT
                      !.callers[c].pc = "load_daemon",
                      !.readers = Append(threads.readers, NewThread)]
    /\ UNCHANGED <<connected, calls, handles>>
    /\ UNCHANGED engine_vars

\* `self._read_thread.daemon = True`, the assignment to the thread that was
\* read from _read_thread: None has no such attribute, and a thread that was
\* started refuses the assignment. The exception is no SerialException:
\* connect() raises it.
connect_daemon(c) ==
    /\ At(c, "connect", "daemon")
    /\ threads' =
           IF threads.callers[c].i = NoThread
           THEN WithFrame(c, Raise(c, "connect", <<>>, NoneTypeError))
           ELSE IF Started(threads.callers[c].i)
           THEN WithFrame(c, Raise(c, "connect", <<>>, ThreadError.daemon))
           ELSE [threads EXCEPT !.callers[c].pc = "load_start"]
    /\ UNCHANGED <<connected, calls, adapter, handles>>
    /\ UNCHANGED engine_vars

\* `self._read_thread.start()`, the call on the thread that was read from
\* _read_thread, in its two steps. First Thread.start() looks whether the
\* thread was started, and raises RuntimeError if it was. Then it starts the
\* thread, waits until it runs, and connect() goes on to `return True`. Two
\* start() calls of one thread that have both found it not started both
\* return: the second finds the thread running, and its own attempt to run
\* the target either dies in the bootstrap of threading or, while the first
\* run has not ended, runs _read_characters once more.
connect_start_thread(c) ==
    /\ threads.callers[c].op = "connect"
    /\ threads.callers[c].pc \in {"start_thread", "starting"}
    /\ LET t == threads.callers[c].i
       IN IF threads.callers[c].pc = "start_thread"
          THEN threads' =
                   IF t = NoThread
                   THEN WithFrame(c, Raise(c, "connect", <<>>, NoneTypeError))
                   ELSE IF Started(t)
                   THEN WithFrame(c, Raise(c, "connect", <<>>, ThreadError.start))
                   ELSE [threads EXCEPT !.callers[c].pc = "starting"]
          ELSE IF ~Started(t)
          THEN threads' = [threads EXCEPT !.callers[c] = Return(c, "connect", <<>>, "True"),
                                          !.readers[t].pc = "loop"]
          ELSE \E again \in BOOLEAN :
                   /\ again => ~Finished(t)
                   /\ threads' =
                          [threads EXCEPT
                              !.callers[c] = Return(c, "connect", <<>>, "True"),
                              !.readers = IF again
                                          THEN Append(@, [NewThread EXCEPT !.pc = "loop"])
                                          ELSE @]
    /\ UNCHANGED <<connected, calls, adapter, handles>>
    /\ UNCHANGED engine_vars

\* A disconnect() that does not ask whether the adapter is connected.
DisconnectUnguarded(is_connected) == TRUE

\* A disconnect() that takes every adapter for one that is not connected.
DisconnectSkipped(is_connected) == FALSE

\* `if self.is_connected():` of disconnect().
DisconnectGuard(is_connected) == is_connected

\* SerialAdapter.disconnect(): `if self.is_connected():`, the read of
\* `self._serial is not None`; nothing else when it is None.
disconnect_check(c) ==
    /\ Ready(c, "disconnect")
    /\ calls < MaxAdapterCalls
    /\ calls' = calls + 1
    /\ threads' = WithFrame(c, IF DisconnectGuard(HasSerial(adapter))
                               THEN Begun(c, "disconnect", <<>>, "load_is_open")
                               ELSE Return(c, "disconnect", <<>>, None))
    /\ UNCHANGED <<connected, adapter, handles>>
    /\ UNCHANGED engine_vars

\* `self._serial.is_open` of the object that was read from _serial, which may
\* have been None by then.
disconnect_is_open(c) ==
    /\ At(c, "disconnect", "is_open")
    /\ LET h == threads.callers[c].h
       IN threads' =
              IF h = NoHandle
              THEN WithFrame(c, Raise(c, "disconnect", <<>>, NoneTypeError))
              ELSE IF DisconnectGuard(handles[h].is_open)
              THEN [threads EXCEPT !.callers[c].pc = "set_stop",
                                   !.callers[c].h = NoHandle]
              ELSE WithFrame(c, Return(c, "disconnect", <<>>, None))
    /\ UNCHANGED <<connected, calls, adapter, handles>>
    /\ UNCHANGED engine_vars

\* `self._stop_reading.set()`
disconnect_set_stop(c) ==
    /\ At(c, "disconnect", "set_stop")
    /\ adapter' = [adapter EXCEPT !.stop_reading = TRUE]
    /\ threads' = [threads EXCEPT !.callers[c].pc = "test_thread"]
    /\ UNCHANGED <<connected, calls, handles>>
    /\ UNCHANGED engine_vars

\* `if self._read_thread:`
disconnect_test_thread(c) ==
    /\ At(c, "disconnect", "test_thread")
    /\ threads' = [threads EXCEPT !.callers[c].pc =
                      IF adapter.read_thread # NoThread THEN "load_join"
                      ELSE "load_close"]
    /\ UNCHANGED <<connected, calls, adapter, handles>>
    /\ UNCHANGED engine_vars

\* `self._read_thread.join(timeout=1.0)`, the call on the thread that was read
\* from _read_thread: None has no join, and a thread that is not started cannot
\* be joined. The caller then waits for that thread.
disconnect_join(c) ==
    /\ At(c, "disconnect", "join")
    /\ threads' =
           IF threads.callers[c].i = NoThread
           THEN WithFrame(c, Raise(c, "disconnect", <<>>, NoneTypeError))
           ELSE IF ~Started(threads.callers[c].i)
           THEN WithFrame(c, Raise(c, "disconnect", <<>>, ThreadError.join))
           ELSE [threads EXCEPT !.callers[c].pc = "joining"]
    /\ UNCHANGED <<connected, calls, adapter, handles>>
    /\ UNCHANGED engine_vars

\* The join returns: the thread has ended, or, with timed_out, it is still
\* running after one second.
disconnect_joined(c, timed_out) ==
    /\ At(c, "disconnect", "joining")
    /\ IF timed_out THEN ~Finished(threads.callers[c].i)
                    ELSE Finished(threads.callers[c].i)
    /\ threads' = [threads EXCEPT !.callers[c].pc = "forget", !.callers[c].i = 0]
    /\ UNCHANGED <<connected, calls, adapter, handles>>
    /\ UNCHANGED engine_vars

\* `self._read_thread = None`
disconnect_forget(c) ==
    /\ At(c, "disconnect", "forget")
    /\ adapter' = [adapter EXCEPT !.read_thread = NoThread]
    /\ threads' = [threads EXCEPT !.callers[c].pc = "load_close"]
    /\ UNCHANGED <<connected, calls, handles>>
    /\ UNCHANGED engine_vars

\* `self._serial.close()`, the call on the object that was read from _serial.
disconnect_close(c) ==
    /\ At(c, "disconnect", "close")
    /\ LET h == threads.callers[c].h
       IN IF h = NoHandle
          THEN /\ threads' = WithFrame(c, Raise(c, "disconnect", <<>>, NoneTypeError))
               /\ UNCHANGED handles
          ELSE /\ handles' = [handles EXCEPT ![h].is_open = FALSE,
                                             ![h].closes = @ + 1]
               /\ threads' = [threads EXCEPT !.callers[c].pc = "clear",
                                             !.callers[c].h = NoHandle]
    /\ connected' = IsOpen(adapter, handles')
    /\ UNCHANGED <<calls, adapter>>
    /\ UNCHANGED engine_vars

\* `self._serial = None`
disconnect_clear(c) ==
    /\ At(c, "disconnect", "clear")
    /\ adapter' = [adapter EXCEPT !.serial = NoHandle]
    /\ threads' = WithFrame(c, Return(c, "disconnect", <<>>, None))
    /\ connected' = FALSE
    /\ UNCHANGED <<calls, handles>>
    /\ UNCHANGED engine_vars

\* ord(c) of the characters of the commands sent.
Ord(c) ==
    CASE c = "2" -> 50
      [] c = "\n" -> 10
      [] c = "a" -> 97
      [] c = "b" -> 98
      [] c = "\r" -> 13
      [] OTHER -> 63

\* command.encode(): the bytes of an ASCII command.
Encode(command) == [i \in 1..Len(command) |-> Ord(command[i])]

\* The commands the engine passes to send_command.
SentCommands == {Normalize(command) : command \in SessionCommands}

\* send_command, receive_response and clear_buffer begin with `if not
\* self.is_connected(): raise ConnectionError("Not connected to FORTH
\* system")`: caller c begins the call op with arg, at the read of
\* `self._serial is not None`.
is_connected_check(c, op, arg) ==
    /\ Free(c)
    /\ calls < MaxAdapterCalls
    /\ calls' = calls + 1
    /\ threads' = WithFrame(c, IF HasSerial(adapter)
                               THEN Begun(c, op, arg, "load_is_open")
                               ELSE Raise(c, op, arg, NotConnectedError))
    /\ UNCHANGED <<connected, adapter, handles>>
    /\ UNCHANGED engine_vars

\* The rest of that is_connected(), `self._serial.is_open` of the object that
\* was read from _serial, in caller c's send_command, receive_response or
\* clear_buffer: _serial may have been None by then; on an open port the method
\* goes on with its next statement.
is_connected_is_open(c) ==
    /\ threads.callers[c].op \in {"send_command", "receive_response", "clear_buffer"}
    /\ threads.callers[c].pc = "is_open"
    /\ LET f == threads.callers[c]
       IN threads' =
              IF f.h = NoHandle
              THEN WithFrame(c, Raise(c, f.op, f.arg, NoneTypeError))
              ELSE IF handles[f.h].is_open
              THEN [threads EXCEPT
                       !.callers[c].pc = IF f.op = "send_command" THEN "load_write"
                                         ELSE "load_in_waiting",
                       !.callers[c].h = NoHandle]
              ELSE WithFrame(c, Raise(c, f.op, f.arg, NotConnectedError))
    /\ UNCHANGED <<connected, calls, adapter, handles>>
    /\ UNCHANGED engine_vars

\* `self._serial.write(command.encode())`, the call on the object that was
\* read from _serial: None has no write, and a closed serial.Serial raises
\* PortNotOpenError.
send_command_write(c) ==
    /\ At(c, "send_command", "write")
    /\ LET command == threads.callers[c].arg
           h == threads.callers[c].h
       IN IF h = NoHandle
          THEN /\ threads' = WithFrame(c, Raise(c, "send_command", command, NoneTypeError))
               /\ UNCHANGED handles
          ELSE IF ~handles[h].is_open
          THEN /\ threads' = WithFrame(c, Raise(c, "send_command", command, PortNotOpenError))
               /\ UNCHANGED handles
          ELSE /\ handles' = [handles EXCEPT ![h].written = Append(@, Encode(command))]
               /\ threads' = WithFrame(c, Return(c, "send_command", command, None))
    /\ UNCHANGED <<connected, calls, adapter>>
    /\ UNCHANGED engine_vars

\* `if self._serial.in_waiting:` of the object that was read from _serial, and
\* `return None` with nothing waiting.
receive_response_in_waiting(c) ==
    /\ At(c, "receive_response", "in_waiting")
    /\ LET h == threads.callers[c].h
       IN threads' =
              IF h = NoHandle
              THEN WithFrame(c, Raise(c, "receive_response", <<>>, NoneTypeError))
              ELSE IF ~handles[h].is_open
              THEN WithFrame(c, Raise(c, "receive_response", <<>>, PortNotOpenError))
              ELSE IF handles[h].waiting # <<>>
              THEN [threads EXCEPT !.callers[c].pc = "load_readline",
                                   !.callers[c].h = NoHandle]
              ELSE WithFrame(c, Return(c, "receive_response", <<>>, None))
    /\ UNCHANGED <<connected, calls, adapter, handles>>
    /\ UNCHANGED engine_vars

\* `self._serial.readline()` on the object that was read from _serial: None
\* has no readline; readline() reads one byte at a time, up to a '\n' or until
\* a read times out with nothing waiting, and a closed port raises
\* PortNotOpenError. The line is decoded with errors='replace' and returned
\* (kept in line).
receive_response_read(c) ==
    /\ At(c, "receive_response", "readline")
    /\ LET h == threads.callers[c].h
       IN IF h = NoHandle
          THEN /\ threads' = WithFrame(c, Raise(c, "receive_response", <<>>,
                                                 NoneTypeError))
               /\ UNCHANGED handles
          ELSE IF ~handles[h].is_open
          THEN /\ threads' = WithFrame(c, Raise(c, "receive_response", <<>>,
                                                 PortNotOpenError))
               /\ UNCHANGED handles
          ELSE IF handles[h].waiting = <<>>
          THEN /\ threads' = [threads EXCEPT !.callers[c].pc = "done",
                                             !.callers[c].result = "str",
                                             !.callers[c].h = NoHandle]
               /\ UNCHANGED handles
          ELSE /\ handles' = [handles EXCEPT
                     ![h].waiting = Tail(@),
                     ![h].drained = Append(@, Head(handles[h].waiting))]
               /\ threads' = [threads EXCEPT
                     !.callers[c].line = Append(@, Decode(Head(handles[h].waiting))),
                     !.callers[c].result =
                        IF Head(handles[h].waiting) = 10 THEN "str" ELSE @,
                     !.callers[c].pc =
                        IF Head(handles[h].waiting) = 10 THEN "done" ELSE @,
                     !.callers[c].h =
                        IF Head(handles[h].waiting) = 10 THEN NoHandle ELSE @]
    /\ UNCHANGED <<connected, calls, adapter>>
    /\ UNCHANGED engine_vars

\* `while self._serial.in_waiting > 0:` of the object that was read from
\* _serial, and the return with nothing waiting.
clear_buffer_in_waiting(c) ==
    /\ At(c, "clear_buffer", "in_waiting")
    /\ LET h == threads.callers[c].h
       IN threads' =
              IF h = NoHandle
              THEN WithFrame(c, Raise(c, "clear_buffer", <<>>, NoneTypeError))
              ELSE IF ~handles[h].is_open
              THEN WithFrame(c, Raise(c, "clear_buffer", <<>>, PortNotOpenError))
              ELSE IF handles[h].waiting # <<>>
              THEN [threads EXCEPT !.callers[c].pc = "read", !.callers[c].h = NoHandle]
              ELSE WithFrame(c, Return(c, "clear_buffer", <<>>, None))
    /\ UNCHANGED <<connected, calls, adapter, handles>>
    /\ UNCHANGED engine_vars

\* `self._serial.read` of `self._serial.read(self._serial.in_waiting)`: the
\* object whose read will be called (kept in i); None has no read.
clear_buffer_read(c) ==
    /\ At(c, "clear_buffer", "read")
    /\ threads' =
           IF adapter.serial = NoHandle
           THEN WithFrame(c, Raise(c, "clear_buffer", <<>>, NoneTypeError))
           ELSE [threads EXCEPT !.callers[c].pc = "load_count",
                                !.callers[c].i = adapter.serial]
    /\ UNCHANGED <<connected, calls, adapter, handles>>
    /\ UNCHANGED engine_vars

\* `self._serial.in_waiting`, the argument of that read, of the object that
\* was read from _serial once more; the number of bytes to read is kept in arg.
clear_buffer_count(c) ==
    /\ At(c, "clear_buffer", "count")
    /\ LET h == threads.callers[c].h
       IN threads' =
              IF h = NoHandle
              THEN WithFrame(c, Raise(c, "clear_buffer", <<>>, NoneTypeError))
              ELSE IF ~handles[h].is_open
              THEN WithFrame(c, Raise(c, "clear_buffer", <<>>, PortNotOpenError))
              ELSE [threads EXCEPT !.callers[c].pc = "discard",
                                   !.callers[c].h = NoHandle,
                                   !.callers[c].arg = <<Len(handles[h].waiting)>>]
    /\ UNCHANGED <<connected, calls, adapter, handles>>
    /\ UNCHANGED engine_vars

\* read(n) takes bytes until it has n or times out with nothing waiting; then
\* the sleep, and the loop test again. A closed port raises PortNotOpenError.
clear_buffer_discard(c) ==
    /\ At(c, "clear_buffer", "discard")
    /\ LET h == threads.callers[c].i
           n == threads.callers[c].arg[1]
       IN IF ~handles[h].is_open
          THEN /\ threads' = WithFrame(c, Raise(c, "clear_buffer", <<>>, PortNotOpenError))
               /\ UNCHANGED handles
          ELSE IF n = 0 \/ handles[h].waiting = <<>>
          THEN /\ threads' = [threads EXCEPT !.callers[c].pc = "load_in_waiting",
                                             !.callers[c].i = 0,
                                             !.callers[c].arg = <<>>]
               /\ UNCHANGED handles
          ELSE /\ handles' = [handles EXCEPT
                     ![h].waiting = Tail(@),
                     ![h].drained = Append(@, Head(handles[h].waiting))]
               /\ threads' = [threads EXCEPT !.callers[c].arg = <<n - 1>>]
    /\ UNCHANGED <<connected, calls, adapter>>
    /\ UNCHANGED engine_vars

\* All bytes the device has sent: the ones the reader threads read, the ones
\* the callers took and the ones waiting.
RECURSIVE Arrived(_)
Arrived(h) ==
    IF h = <<>> THEN 0
    ELSE Len(Head(h).read) + Len(Head(h).drained) + Len(Head(h).waiting)
             + Arrived(Tail(h))

\* The device sends a byte: it waits in the open serial.Serial object.
arrive(byte) ==
    /\ IsOpen(adapter, handles)
    /\ Arrived(handles) < MaxBytes
    /\ handles' = [handles EXCEPT ![adapter.serial].waiting = Append(@, byte)]
    /\ UNCHANGED <<connected, calls, adapter, threads>>
    /\ UNCHANGED engine_vars

\* `while not self._stop_reading.is_set() and self.is_connected():`
KeepsReading(stop_is_set, is_connected) == ~stop_is_set /\ is_connected

\* Reader thread r's `except Exception as e:` prints the error and sleeps; the
\* thread goes back to the loop test.
Prints(r, error) ==
    [threads EXCEPT !.readers[r].pc = "loop",
                    !.readers[r].char = None,
                    !.readers[r].line = <<>>,
                    !.readers[r].i = 0,
                    !.readers[r].archivist = None,
                    !.readers[r].h = NoHandle,
                    !.readers[r].caught = @ \cup {error}]

\* _read_characters, the loop test of reader thread r: the read of the stop
\* flag; is_connected() is called only when the flag is clear.
reader_loop(r) ==
    /\ threads.readers[r].pc = "loop"
    /\ threads' = [threads EXCEPT !.readers[r].pc =
                      IF KeepsReading(adapter.stop_reading, TRUE)
                      THEN "is_connected" ELSE "done"]
    /\ UNCHANGED <<connected, calls, adapter, handles>>
    /\ UNCHANGED engine_vars

\* The loop test, is_connected(): the read of `self._serial is not None`.
reader_is_connected(r) ==
    /\ threads.readers[r].pc = "is_connected"
    /\ threads' = [threads EXCEPT !.readers[r].pc =
                      IF KeepsReading(FALSE, HasSerial(adapter))
                      THEN "load_is_open" ELSE "done"]
    /\ UNCHANGED <<connected, calls, adapter, handles>>
    /\ UNCHANGED engine_vars

\* Reader thread r evaluates `self._serial` in `self._serial.is_open`,
\* `self._serial.in_waiting` or `self._serial.read(1)`: it holds the object,
\* or None, that _serial names now (kept in h).
reader_load_serial(r) ==
    LET use == [load_is_open |-> "is_open", load_in_waiting |-> "in_waiting",
                load_read |-> "read"]
    IN /\ threads.readers[r].pc \in DOMAIN use
       /\ threads' = [threads EXCEPT !.readers[r].pc = use[threads.readers[r].pc],
                                     !.readers[r].h = adapter.serial]
       /\ UNCHANGED <<connected, calls, adapter, handles>>
       /\ UNCHANGED engine_vars

\* The loop test, is_connected(): `self._serial.is_open` of the object that was
\* read from _serial. When that was None the test raises AttributeError outside
\* the `try`, and the thread ends.
reader_is_open(r) ==
    /\ threads.readers[r].pc = "is_open"
    /\ LET h == threads.readers[r].h
       IN threads' = [threads EXCEPT
                         !.readers[r].pc =
                            IF h = NoHandle THEN "done"
                            ELSE IF KeepsReading(FALSE, handles[h].is_open)
                            THEN "load_in_waiting" ELSE "done",
                         !.readers[r].h = NoHandle]
    /\ UNCHANGED <<connected, calls, adapter, handles>>
    /\ UNCHANGED engine_vars

\* `if self._serial.in_waiting > 0:` of the object that was read from _serial;
\* with nothing waiting the thread sleeps and goes back to the loop test; the
\* exception of None or of a closed port is caught.
reader_in_waiting(r) ==
    /\ threads.readers[r].pc = "in_waiting"
    /\ LET h == threads.readers[r].h
       IN threads' =
              IF h = NoHandle THEN Prints(r, NoneTypeError)
              ELSE IF ~handles[h].is_open THEN Prints(r, PortNotOpenError)
              ELSE [threads EXCEPT
                       !.readers[r].pc = IF handles[h].waiting # <<>> THEN "load_read"
                                         ELSE "loop",
                       !.readers[r].h = NoHandle]
    /\ UNCHANGED <<connected, calls, adapter, handles>>
    /\ UNCHANGED engine_vars

\* The character reader thread r gets from a byte, and where it goes next: on
\* with the character, or, when decoding raised, to the `except Exception`
\* handler and from there to the loop test.
Decoded(byte) ==
    IF Decode(byte) = "UnicodeDecodeError"
    THEN [pc |-> "loop", char |-> None]
    ELSE [pc |-> "put", char |-> Decode(byte)]

\* `raw_data = self._serial.read(1); char = raw_data.decode('utf-8',
\* errors='replace')`, the read on the object that was read from _serial: the
\* exception of None or of a closed port is caught; the read takes the oldest
\* byte waiting, or, when another thread has taken what was waiting, times out
\* and returns b'', which decodes to ''.
reader_read(r) ==
    /\ threads.readers[r].pc = "read"
    /\ LET h == threads.readers[r].h
       IN IF h = NoHandle
          THEN /\ threads' = Prints(r, NoneTypeError)
               /\ UNCHANGED handles
          ELSE IF ~handles[h].is_open
          THEN /\ threads' = Prints(r, PortNotOpenError)
               /\ UNCHANGED handles
          ELSE IF handles[h].waiting = <<>>
          THEN /\ threads' = [threads EXCEPT !.readers[r].pc = "put",
                                             !.readers[r].h = NoHandle,
                                             !.readers[r].char = Empty]
               /\ UNCHANGED handles
          ELSE LET byte == Head(handles[h].waiting)
               IN /\ handles' = [handles EXCEPT ![h].waiting = Tail(@),
                                                ![h].read = Append(@, byte)]
                  /\ threads' = [threads EXCEPT !.readers[r].pc = Decoded(byte).pc,
                                                !.readers[r].h = NoHandle,
                                                !.readers[r].char = Decoded(byte).char]
    /\ UNCHANGED <<connected, calls, adapter>>
    /\ UNCHANGED engine_vars

\* `self._char_queue.put(char)`: the adapter's own queue, which
\* get_character_queue() hands out.
reader_put(r) ==
    /\ threads.readers[r].pc = "put"
    /\ adapter' = [adapter EXCEPT !.char_queue = Append(@, threads.readers[r].char)]
    /\ threads' = [threads EXCEPT !.readers[r].pc = "deliver"]
    /\ UNCHANGED <<connected, calls, handles>>
    /\ UNCHANGED engine_vars

\* A reader with no `except`: the handler's exception ends the thread.
Uncaught(r, error) == [Prints(r, error) EXCEPT !.readers[r].pc = "done"]

\* The handler raised in reader thread r: the `try` is inside the loop, so the
\* `except Exception` handler prints and the thread goes back to the loop test.
Caught(r, error) == Prints(r, error)

\* The handler returned in reader thread r: back to the loop test.
Delivered(r) ==
    [threads EXCEPT !.readers[r].pc = "loop", !.readers[r].char = None,
                    !.readers[r].line = <<>>, !.readers[r].i = 0,
                    !.readers[r].archivist = None]

\* `self._character_handler.handle_character(char)` in reader thread r, the
\* engine's handle_character statement by statement:
\* `self.character_queue.put(char)`.
reader_deliver(r) ==
    /\ threads.readers[r].pc = "deliver"
    /\ Len(fed) < MaxFed
    /\ fed' = Append(fed, threads.readers[r].char)
    /\ character_queue' = Append(character_queue, threads.readers[r].char)
    /\ threads' = [threads EXCEPT !.readers[r].pc = "test"]
    /\ UNCHANGED <<comm_port, connected, archivists, current_response, events, failing,
                   send_calls, call, trace, attended, calls, taken, adapter, handles>>

\* `if char == '\n' or char == '\r': if self._current_response:`, the first
\* read of the buffer for a terminator, or the read of
\* `self._current_response += char`.
reader_test(r) ==
    /\ threads.readers[r].pc = "test"
    /\ LET char == threads.readers[r].char
       IN threads' =
              IF IsTerminator(char)
              THEN IF CompletesLine(char, current_response)
                   THEN [threads EXCEPT !.readers[r].pc = "arg"]
                   ELSE Delivered(r)
              ELSE [threads EXCEPT !.readers[r].pc = "append",
                                   !.readers[r].line = current_response]
    /\ UNCHANGED <<connected, calls, adapter, handles>>
    /\ UNCHANGED engine_vars

\* `self._process_response(self._current_response)` in reader thread r, the
\* argument: the buffer is read again, and what it holds now is the response
\* that is dispatched.
reader_arg(r) ==
    /\ threads.readers[r].pc = "arg"
    /\ threads' = [threads EXCEPT !.readers[r].pc = "dispatch",
                                  !.readers[r].line = current_response,
                                  !.readers[r].i = 1]
    /\ UNCHANGED <<connected, calls, adapter, handles>>
    /\ UNCHANGED engine_vars

\* The loop of _process_response in reader thread r, `for archivist in
\* self._archivists: archivist.record_system_response(response)`, in its two
\* steps. First the list iterator takes the archivist at its index from the
\* list as it is now and moves on, or ends the loop, and the call goes on to
\* reset the buffer. Then the archivist that was taken records the
\* SYSTEM_RESPONSE, or raises, which ends the call.
reader_dispatch(r) ==
    /\ threads.readers[r].pc \in {"dispatch", "record"}
    /\ LET f == threads.readers[r]
       IN IF f.pc = "dispatch"
          THEN /\ threads' =
                      IF f.i > Len(archivists)
                      THEN [threads EXCEPT !.readers[r].pc = "reset"]
                      ELSE [threads EXCEPT !.readers[r].pc = "record",
                                           !.readers[r].archivist = archivists[f.i],
                                           !.readers[r].i = @ + 1]
               /\ UNCHANGED events
          ELSE IF f.archivist \in failing
          THEN /\ threads' = Caught(r, ArchivistError)
               /\ UNCHANGED events
          ELSE /\ events' = [events EXCEPT ![f.archivist] =
                                Append(@, SystemResponse(f.line))]
               /\ threads' = [threads EXCEPT !.readers[r].pc = "dispatch",
                                             !.readers[r].archivist = None]
    /\ UNCHANGED <<comm_port, connected, archivists, current_response, character_queue,
                   failing, send_calls, call, trace, fed, attended, calls, taken,
                   adapter, handles>>

\* `self._current_response = ""` in reader thread r.
reader_reset(r) ==
    /\ threads.readers[r].pc = "reset"
    /\ current_response' = <<>>
    /\ threads' = Delivered(r)
    /\ UNCHANGED <<comm_port, connected, archivists, character_queue, events, failing,
                   send_calls, call, trace, fed, attended, calls, taken, adapter, handles>>

\* The write of `self._current_response += char` in reader thread r: what was
\* read, and char.
reader_append(r) ==
    /\ threads.readers[r].pc = "append"
    /\ current_response' = Plus(threads.readers[r].line, threads.readers[r].char)
    /\ threads' = Delivered(r)
    /\ UNCHANGED <<comm_port, connected, archivists, character_queue, events, failing,
                   send_calls, call, trace, fed, attended, calls, taken, adapter, handles>>

\* The reader threads.
Readers == 1..Len(threads.readers)

\* The reader threads that are still running.
Alive == {r \in Readers : ~Finished(r)}

\* ForthRepl(adapter) with working archivists and a SerialAdapter that was
\* never connected, or whose first connect() has just returned True.
InitAdapter ==
    /\ comm_port = "port"
    /\ archivists = <<>>
    /\ current_response = <<>>
    /\ character_queue = <<>>
    /\ events = [a \in Archivists |-> <<>>]
    /\ failing = {}
    /\ send_calls = <<>>
    /\ call = Returned("__init__", <<>>, "None", NoCall)
    /\ trace = <<>>
    /\ fed = <<>>
    /\ attended = Archivists
    /\ calls = 0
    /\ taken = <<>>
    /\ \/ /\ connected = FALSE
          /\ adapter = [serial |-> NoHandle, stop_reading |-> FALSE, read_thread |-> NoThread,
                        char_queue |-> <<>>]
          /\ handles = <<>>
          /\ threads = [callers |-> [c \in Callers |-> NoFrame], readers |-> <<>>]
       \/ /\ connected = TRUE
          /\ adapter = [serial |-> 1, stop_reading |-> FALSE, read_thread |-> 1,
                        char_queue |-> <<>>]
          /\ handles = <<NewSerial>>
          /\ threads = [callers |-> [c \in Callers |->
                                        IF c = "main"
                                        THEN [NoFrame EXCEPT !.op = "connect",
                                                             !.pc = "done",
                                                             !.result = "True"]
                                        ELSE NoFrame],
                        readers |-> <<[NewThread EXCEPT !.pc = "loop"]>>]

\* One caller that connects an adapter that is not connected and disconnects,
\* one call at a time; the reader thread runs beside it, and a join waits for
\* the reader to end or gives up on it after its second; the device sends
\* nothing.
NextAdapter ==
    \/ \E outcome \in OpenOutcomes :
           ~IsOpen(adapter, handles) /\ connect_open("main", outcome)
    \/ connect_clear_stop("main")
    \/ connect_create_thread("main")
    \/ load_read_thread("main")
    \/ connect_daemon("main")
    \/ connect_start_thread("main")
    \/ disconnect_check("main")
    \/ load_serial("main")
    \/ disconnect_is_open("main")
    \/ disconnect_set_stop("main")
    \/ disconnect_test_thread("main")
    \/ disconnect_join("main")
    \/ \E timed_out \in BOOLEAN : disconnect_joined("main", timed_out)
    \/ disconnect_forget("main")
    \/ disconnect_close("main")
    \/ disconnect_clear("main")
    \/ \E r \in Readers : reader_loop(r)
    \/ \E r \in Readers : reader_is_connected(r)
    \/ \E r \in Readers : reader_load_serial(r)
    \/ \E r \in Readers : reader_is_open(r)
    \/ \E r \in Readers : reader_in_waiting(r)

SpecAdapter == InitAdapter /\ [][NextAdapter]_vars

\* One caller that sends commands and takes what the device sent with
\* receive_response() and clear_buffer(), one call at a time, while the reader
\* thread of the adapter reads the port beside it.
NextPort ==
    \/ \E command \in SentCommands : is_connected_check("main", "send_command", command)
    \/ load_serial("main")
    \/ is_connected_is_open("main")
    \/ send_command_write("main")
    \/ is_connected_check("main", "receive_response", <<>>)
    \/ receive_response_in_waiting("main")
    \/ receive_response_read("main")
    \/ is_connected_check("main", "clear_buffer", <<>>)
    \/ clear_buffer_in_waiting("main")
    \/ clear_buffer_read("main")
    \/ clear_buffer_count("main")
    \/ clear_buffer_discard("main")
    \/ \E byte \in Bytes : arrive(byte)
    \/ \E r \in Readers : reader_loop(r)
    \/ \E r \in Readers : reader_is_connected(r)
    \/ \E r \in Readers : reader_load_serial(r)
    \/ \E r \in Readers : reader_is_open(r)
    \/ \E r \in Readers : reader_in_waiting(r)
    \/ \E r \in Readers : reader_read(r)
    \/ \E r \in Readers : reader_put(r)
    \/ \E r \in Readers : reader_deliver(r)
    \/ \E r \in Readers : reader_test(r)
    \/ \E r \in Readers : reader_arg(r)
    \/ \E r \in Readers : reader_dispatch(r)
    \/ \E r \in Readers : reader_reset(r)
    \/ \E r \in Readers : reader_append(r)

SpecPort == InitAdapter /\ [][NextPort]_vars

\* Two callers whose calls interleave statement by statement, a connect() also
\* on a connected adapter, and a join that may give up on a running reader;
\* the device sends nothing.
NextAdapterRace ==
    \/ \E c \in Callers, outcome \in OpenOutcomes : connect_open(c, outcome)
    \/ \E c \in Callers : connect_clear_stop(c)
    \/ \E c \in Callers : connect_create_thread(c)
    \/ \E c \in Callers : load_read_thread(c)
    \/ \E c \in Callers : load_serial(c)
    \/ \E c \in Callers : connect_daemon(c)
    \/ \E c \in Callers : connect_start_thread(c)
    \/ \E c \in Callers : disconnect_check(c)
    \/ \E c \in Callers : disconnect_is_open(c)
    \/ \E c \in Callers : disconnect_set_stop(c)
    \/ \E c \in Callers : disconnect_test_thread(c)
    \/ \E c \in Callers : disconnect_join(c)
    \/ \E c \in Callers, timed_out \in BOOLEAN : disconnect_joined(c, timed_out)
    \/ \E c \in Callers : disconnect_forget(c)
    \/ \E c \in Callers : disconnect_close(c)
    \/ \E c \in Callers : disconnect_clear(c)
    \/ \E c \in Callers, command \in SentCommands : is_connected_check(c, "send_command", command)
    \/ \E c \in Callers : is_connected_is_open(c)
    \/ \E c \in Callers : send_command_write(c)
    \/ \E r \in Readers : reader_loop(r)
    \/ \E r \in Readers : reader_is_connected(r)
    \/ \E r \in Readers : reader_load_serial(r)
    \/ \E r \in Readers : reader_is_open(r)
    \/ \E r \in Readers : reader_in_waiting(r)

SpecAdapterRace == InitAdapter /\ [][NextAdapterRace]_vars

\* One caller that makes one call at a time, a connect() also on a connected
\* adapter, and a join that may give up on a running reader; the device sends
\* the byte 'a', and every reader thread that runs reads and delivers it.
NextReaders ==
    \/ \E outcome \in OpenOutcomes : connect_open("main", outcome)
    \/ connect_clear_stop("main")
    \/ connect_create_thread("main")
    \/ load_read_thread("main")
    \/ connect_daemon("main")
    \/ connect_start_thread("main")
    \/ disconnect_check("main")
    \/ load_serial("main")
    \/ disconnect_is_open("main")
    \/ disconnect_set_stop("main")
    \/ disconnect_test_thread("main")
    \/ disconnect_join("main")
    \/ \E timed_out \in BOOLEAN : disconnect_joined("main", timed_out)
    \/ disconnect_forget("main")
    \/ disconnect_close("main")
    \/ disconnect_clear("main")
    \/ arrive(97)
    \/ \E r \in Readers : reader_loop(r)
    \/ \E r \in Readers : reader_is_connected(r)
    \/ \E r \in Readers : reader_load_serial(r)
    \/ \E r \in Readers : reader_is_open(r)
    \/ \E r \in Readers : reader_in_waiting(r)
    \/ \E r \in Readers : reader_read(r)
    \/ \E r \in Readers : reader_put(r)
    \/ \E r \in Readers : reader_deliver(r)
    \/ \E r \in Readers : reader_test(r)
    \/ \E r \in Readers : reader_append(r)

SpecReaders == InitAdapter /\ [][NextReaders]_vars

\* Caller c begins call op in this step.
Begins(c, op) == Free(c) /\ calls' = calls + 1 /\ threads'.callers[c].op = op

\* C24: a disconnect() begun on an adapter that is not connected (never
\* connected, or disconnected before) returns None at once: it raises nothing,
\* closes no serial.Serial object and leaves the adapter as it was, not
\* connected.
C24_DisconnectIsIdempotent ==
    [][\A c \in Callers :
          (Begins(c, "disconnect") /\ ~IsOpen(adapter, handles))
              => /\ threads'.callers[c] = Return(c, "disconnect", <<>>, None)
                 /\ adapter' = adapter
                 /\ handles' = handles
                 /\ ~IsOpen(adapter', handles')]_vars

\* C24 witness: the connected adapter was disconnected twice; the second call
\* has returned None, the one serial.Serial object was closed once and the
\* adapter is not connected, its reader thread finished.
C24_Witness ==
    /\ calls = 2
    /\ threads.callers["main"] = Return("main", "disconnect", <<>>, None)
    /\ Len(handles) = 1 /\ handles[1].closes = 1 /\ ~handles[1].is_open
    /\ adapter = [serial |-> NoHandle, stop_reading |-> TRUE, read_thread |-> NoThread,
                  char_queue |-> <<>>]
    /\ Alive = {}

\* All bytes read from the serial.Serial objects, in the order of the objects.
RECURSIVE AllRead(_)
AllRead(h) == IF h = <<>> THEN <<>> ELSE Head(h).read \o AllRead(Tail(h))

\* The characters the reader threads hold and have not passed on yet.
RECURSIVE Held(_)
Held(readers) ==
    IF readers = <<>> THEN <<>>
    ELSE (IF Head(readers).pc \in {"put", "deliver"} THEN <<Head(readers).char>>
          ELSE <<>>)
             \o Held(Tail(readers))

\* The characters a byte can become: one character each.
OneCharacter == {"a", "\n", ReplacementChar}

\* The handle_character calls made for a byte: the calls but those made with
\* '', which the reader makes when its read(1) timed out and no byte was read.
IsCharacter(char) == char # Empty
ForBytes(chars) == SelectSeq(chars, IsCharacter)

\* C25: with one reader thread at a time, the characters passed to
\* handle_character for the bytes read, followed by the one the reader holds,
\* are the bytes read, one character per byte in the order read, an
\* undecodable byte as U+FFFD; and no reader thread has left its loop while
\* the adapter is connected and not told to stop.
C25_MalformedBytesAreReplaced ==
    /\ Len(ForBytes(fed \o Held(threads.readers))) = Len(AllRead(handles))
    /\ \A i \in 1..Len(AllRead(handles)) :
          /\ ForBytes(fed \o Held(threads.readers))[i] \in OneCharacter
          /\ ForBytes(fed \o Held(threads.readers))[i] =
                 IF AllRead(handles)[i] = 195 THEN ReplacementChar
                 ELSE IF AllRead(handles)[i] = 97 THEN "a" ELSE "\n"
    /\ \A r \in Readers :
          (Finished(r) /\ r = adapter.read_thread)
              => (adapter.stop_reading \/ ~IsOpen(adapter, handles))

\* C25 witness: the bytes 0xC3 and 'a' were read in that order; both were
\* passed to handle_character, the first as U+FFFD, and the reader is running.
C25_Witness ==
    /\ AllRead(handles) = <<195, 97>>
    /\ fed = <<ReplacementChar, "a">>
    /\ Alive # {}
    /\ IsOpen(adapter, handles)

\* C28: a send_command call that has ended, whatever ran beside it, either
\* returned None having written, or raised ConnectionError; it ended with no
\* other failure.
C28_SendWritesOrRaisesConnectionError ==
    \A c \in Callers :
        At(c, "send_command", "done")
            => threads.callers[c].error \in {NoError, NotConnectedError}

\* Reader thread r is in a handle_character call, or about to make it with
\* the character it read.
Delivering(r) ==
    threads.readers[r].pc \in {"deliver", "test", "arg", "dispatch", "record", "reset",
                               "append"}

\* C30: whatever connect() and disconnect() calls were made, no two reader
\* threads are passing characters to the handler at once.
C30_AtMostOneReader ==
    Cardinality({r \in Readers : Delivering(r)}) <= 1

\* ------------------------------------------------------------------ calls in flight
\* The engine's methods statement by statement, for calls that run beside each
\* other: the engine holds no lock, so another thread may run between any two
\* steps of a call.

\* `for archivist in self._archivists:` in caller c's frame: the list iterator
\* holds the index i and looks at the list as it is in every round, so the loop
\* ends when i is past the end of the list as it is then.
LoopEnded(c) == threads.callers[c].i > Len(archivists)

\* The archivist the loop in caller c's frame calls in this round.
Current(c) == archivists[threads.callers[c].i]

\* Caller c's call ends: its frame keeps what the call read.
Ended(c, value, error) ==
    [threads EXCEPT !.callers[c].pc = "done", !.callers[c].result = value,
                    !.callers[c].error = error]

\* handle_character(char): `self.character_queue.put(char)`.
handle_character_put(c, char) ==
    /\ Free(c)
    /\ Len(fed) < MaxFed
    /\ fed' = Append(fed, char)
    /\ character_queue' = Append(character_queue, char)
    /\ threads' = WithFrame(c, [NoFrame EXCEPT !.op = "handle_character",
                                               !.arg = <<char>>, !.pc = "test"])
    /\ UNCHANGED <<comm_port, connected, archivists, current_response, events, failing,
                   send_calls, call, trace, attended, calls, taken, adapter, handles>>

\* `if char == '\n' or char == '\r': if self._current_response:`, the first
\* read of the buffer for a terminator, or the read of
\* `self._current_response += char`.
handle_character_test(c) ==
    /\ At(c, "handle_character", "test")
    /\ LET char == threads.callers[c].arg[1]
       IN threads' =
              IF IsTerminator(char)
              THEN IF CompletesLine(char, current_response)
                   THEN [threads EXCEPT !.callers[c].pc = "arg"]
                   ELSE Ended(c, None, NoError)
              ELSE [threads EXCEPT !.callers[c].pc = "append",
                                   !.callers[c].line = current_response]
    /\ UNCHANGED <<comm_port, connected, archivists, current_response, character_queue,
                   events, failing, send_calls, call, trace, fed, attended, calls, taken,
                   adapter, handles>>

\* `self._process_response(self._current_response)`, the argument: the buffer
\* is read again, and what it holds now is the response that is dispatched.
handle_character_arg(c) ==
    /\ At(c, "handle_character", "arg")
    /\ threads' = [threads EXCEPT !.callers[c].pc = "dispatch",
                                  !.callers[c].line = current_response,
                                  !.callers[c].i = 1]
    /\ UNCHANGED <<comm_port, connected, archivists, current_response, character_queue,
                   events, failing, send_calls, call, trace, fed, attended, calls, taken,
                   adapter, handles>>

\* The loop of _process_response, `for archivist in self._archivists:
\* archivist.record_system_response(response)`, in its two steps. First the
\* list iterator takes the archivist at its index from the list as it is now
\* and moves on, or ends the loop, and the call goes on to reset the buffer.
\* Then the archivist that was taken records the SYSTEM_RESPONSE, or raises,
\* which ends the call; it records also when it was removed from the list in
\* between.
handle_character_dispatch(c) ==
    /\ threads.callers[c].op = "handle_character"
    /\ threads.callers[c].pc \in {"dispatch", "record"}
    /\ LET f == threads.callers[c]
       IN IF f.pc = "dispatch"
          THEN /\ threads' =
                      IF LoopEnded(c)
                      THEN [threads EXCEPT !.callers[c].pc = "reset"]
                      ELSE [threads EXCEPT !.callers[c].pc = "record",
                                           !.callers[c].archivist = Current(c),
                                           !.callers[c].i = @ + 1]
               /\ UNCHANGED events
          ELSE IF f.archivist \in failing
          THEN /\ threads' = Ended(c, "raised", ArchivistError)
               /\ UNCHANGED events
          ELSE /\ events' = [events EXCEPT ![f.archivist] =
                                Append(@, SystemResponse(f.line))]
               /\ threads' = [threads EXCEPT !.callers[c].pc = "dispatch",
                                             !.callers[c].archivist = None]
    /\ UNCHANGED <<comm_port, connected, archivists, current_response, character_queue,
                   failing, send_calls, call, trace, fed, attended, calls, taken,
                   adapter, handles>>

\* `self._current_response = ""`
handle_character_reset(c) ==
    /\ At(c, "handle_character", "reset")
    /\ current_response' = <<>>
    /\ threads' = Ended(c, None, NoError)
    /\ UNCHANGED <<comm_port, connected, archivists, character_queue, events, failing,
                   send_calls, call, trace, fed, attended, calls, taken, adapter, handles>>

\* The write of `self._current_response += char`: what was read, and char.
handle_character_append(c) ==
    /\ At(c, "handle_character", "append")
    /\ current_response' = Plus(threads.callers[c].line, threads.callers[c].arg[1])
    /\ threads' = Ended(c, None, NoError)
    /\ UNCHANGED <<comm_port, connected, archivists, character_queue, events, failing,
                   send_calls, call, trace, fed, attended, calls, taken, adapter, handles>>

\* clear_character_queue(), `while not self.character_queue.empty():
\* self.character_queue.get_nowait()`, statement by statement: the call begins
\* with the test of empty(), which ends it on an empty queue; get_nowait()
\* takes the oldest character, which the call throws away, and the test is
\* made again; a get_nowait() that finds the queue emptied by the consumer in
\* between raises Empty, which ends the loop.
clear_character_queue(c) ==
    /\ \/ Free(c)
       \/ threads.callers[c].op = "clear_character_queue" /\ ~Free(c)
    /\ LET get == ~Free(c) /\ threads.callers[c].pc = "get"
           frame == [NoFrame EXCEPT !.op = "clear_character_queue"]
       IN IF character_queue = <<>>
          THEN /\ threads' = WithFrame(c, [frame EXCEPT !.pc = "done"])
               /\ UNCHANGED character_queue
          ELSE IF get
          THEN /\ character_queue' = Get(character_queue).rest
               /\ threads' = WithFrame(c, [frame EXCEPT !.pc = "empty"])
          ELSE /\ threads' = WithFrame(c, [frame EXCEPT !.pc = "get"])
               /\ UNCHANGED character_queue
    /\ UNCHANGED <<comm_port, connected, archivists, current_response, events, failing,
                   send_calls, call, trace, fed, attended, calls, taken, adapter, handles>>

\* ForthRepl(adapter) with a1, or a1 and then a2, registered, archivists that
\* work and a SerialAdapter that was never connected.
InitThreads ==
    /\ comm_port = "port"
    /\ connected = FALSE
    /\ archivists \in {<<"a1">>, <<"a1", "a2">>}
    /\ current_response = <<>>
    /\ character_queue = <<>>
    /\ events = [a \in Archivists |-> <<>>]
    /\ failing = {}
    /\ send_calls = <<>>
    /\ call = Returned("__init__", <<>>, "None", NoCall)
    /\ trace = <<>>
    /\ fed = <<>>
    /\ attended = Archivists
    /\ calls = 0
    /\ Idle

\* No add_archivist or remove_archivist call was made.
RegistryUntouched == call.op = "__init__"

\* The reader thread in handle_character, one call after the other, while the
\* caller thread changes the registry once.
NextDispatch ==
    \/ \E char \in SessionChars : handle_character_put("main", char)
    \/ handle_character_test("main")
    \/ handle_character_arg("main")
    \/ handle_character_dispatch("main")
    \/ handle_character_reset("main")
    \/ handle_character_append("main")
    \/ \E archivist \in Archivists :
           /\ RegistryUntouched
           /\ Registrations(archivist, archivists) = 0
           /\ add_archivist(archivist)
    \/ \E archivist \in Archivists : RegistryUntouched /\ remove_archivist(archivist)

SpecDispatch == InitThreads /\ [][NextDispatch]_vars

\* Two threads in handle_character at once; the registry is left alone.
NextDelivery ==
    \/ \E c \in Callers, char \in SessionChars : handle_character_put(c, char)
    \/ \E c \in Callers : handle_character_test(c)
    \/ \E c \in Callers : handle_character_arg(c)
    \/ \E c \in Callers : handle_character_dispatch(c)
    \/ \E c \in Callers : handle_character_reset(c)
    \/ \E c \in Callers : handle_character_append(c)

SpecDelivery == InitThreads /\ [][NextDelivery]_vars

\* One producer, the reader thread calling handle_character statement by
\* statement, one consumer of the character queue, the GUI's timer, which
\* runs between any two of the producer's statements, and a thread that calls
\* clear_character_queue(); the registry is left alone.
NextQueue ==
    \/ \E char \in Chars : handle_character_put("main", char)
    \/ handle_character_test("main")
    \/ handle_character_arg("main")
    \/ handle_character_dispatch("main")
    \/ handle_character_reset("main")
    \/ handle_character_append("main")
    \/ get_nowait
    \/ clear_character_queue("other")

SpecQueue == InitThreads /\ [][NextQueue]_vars

\* C22: with one producer, the characters the consumer took from
\* character_queue followed by the characters still in it are the characters
\* passed to handle_character, each once, terminators included, in arrival
\* order; once the queue is empty the characters taken are exactly the
\* characters passed.
C22_QueuePreservesOrder ==
    /\ taken \o character_queue = fed
    /\ character_queue = <<>> => taken = fed

\* Sequence s is sequence t with some of its elements left out.
RECURSIVE IsSubsequence(_, _)
IsSubsequence(s, t) ==
    IF s = <<>> THEN TRUE
    ELSE IF t = <<>> THEN FALSE
    ELSE IF Head(s) = Head(t) THEN IsSubsequence(Tail(s), Tail(t))
    ELSE IsSubsequence(s, Tail(t))

\* C22 (amended): with one producer, the characters the consumer took from
\* character_queue followed by the characters still in it are characters
\* passed to handle_character, in arrival order and none twice, terminators
\* included; characters are missing only when clear_character_queue() was
\* called: as long as it was not, they are all the characters passed, and once
\* the queue is empty the characters taken are exactly the characters passed.
C22_TakenKeepsArrivalOrder ==
    /\ IsSubsequence(taken \o character_queue, fed)
    /\ threads.callers["other"].pc = "idle"
           => /\ taken \o character_queue = fed
              /\ character_queue = <<>> => taken = fed

\* C22 witness: 'a', '\n', '\r' and 'b' were passed in that order; the
\* consumer took 'a', clear_character_queue() then threw '\n' away and
\* returned, the consumer took '\r', and 'b', which the producer has put and
\* not yet appended to the pending line, is still queued.
C22_Witness ==
    /\ fed = <<"a", "\n", "\r", "b">>
    /\ taken = <<"a", "\r">>
    /\ character_queue = <<"b">>
    /\ At("other", "clear_character_queue", "done")
    /\ At("main", "handle_character", "test")
    /\ current_response = <<>>

\* C26: when the reader's handle_character call for the terminator of the
\* first line has returned, every archivist that was registered for the whole
\* dispatch (it is registered, and the one registry change made was not about
\* it) holds the line as its one SYSTEM_RESPONSE: it was not skipped and not
\* notified twice.
C26_RegistryChangeDuringDispatchIsSafe ==
    (/\ At("main", "handle_character", "done")
     /\ threads.callers["main"].error = NoError
     /\ Len(fed) > 1 /\ IsTerminator(fed[Len(fed)]) /\ Plain(DropLast(fed, 1)))
        => \A a \in Archivists :
              (Registered(a) /\ call.arg # <<a>>) => Responses(a) = <<DropLast(fed, 1)>>

\* How many times character x is in string s.
CountChar(x, s) == Cardinality({i \in 1..Len(s) : s[i] = x})

\* The strings of a sequence, one after the other.
RECURSIVE Joined(_)
Joined(strings) == IF strings = <<>> THEN <<>> ELSE Head(strings) \o Joined(Tail(strings))

\* C29: once the handle_character calls of both threads have returned, every
\* character that is no terminator is, as many times as it was delivered, in
\* the lines dispatched to a1 or in the pending buffer: none was lost and none
\* was duplicated.
C29_ConcurrentDeliveryLosesNothing ==
    (\A c \in Callers : Free(c))
        => \A x \in SessionChars :
              ~IsTerminator(x)
                  => CountChar(x, fed)
                         = CountChar(x, Joined(Responses("a1")) \o current_response)

\* start(): the call begins; `self._comm_port.connect()` is called next.
start_begin(c) ==
    /\ Free(c)
    /\ threads' = WithFrame(c, [NoFrame EXCEPT !.op = "start", !.pc = "connect"])
    /\ UNCHANGED <<connected, calls, adapter, handles>>
    /\ UNCHANGED engine_vars

\* `success = self._comm_port.connect()` once connect() has returned or
\* raised: on True the loop over the archivists is entered, on False start()
\* returns False, and an exception takes start() to the loop of its `except`.
start_returned(c) ==
    /\ At(c, "start", "returned")
    /\ threads' = IF threads.callers[c].result = "True"
                  THEN [threads EXCEPT !.callers[c].pc = "notify", !.callers[c].i = 1]
                  ELSE IF threads.callers[c].result = "raised"
                  THEN [threads EXCEPT !.callers[c].pc = "report", !.callers[c].i = 1]
                  ELSE Ended(c, "False", NoError)
    /\ UNCHANGED <<connected, calls, adapter, handles>>
    /\ UNCHANGED engine_vars

\* The loops of start(), `for archivist in self._archivists:
\* archivist.record_connection_opened()` after connect() and `for archivist in
\* self._archivists: archivist.record_system_error(str(e))` in the `except`,
\* each round in its two steps. First the list iterator takes the archivist at
\* its index from the list as it is now and moves on, or ends the loop: start()
\* returns True after the first loop and False after the second. Then the
\* archivist that was taken records the CONNECTION_OPENED or the SYSTEM_ERROR,
\* also when it was removed from the list in between, or raises: in the first
\* loop that takes start() to its `except` handler with the archivist's
\* exception, in the handler it ends start() with that exception.
start_notify(c) ==
    /\ threads.callers[c].op = "start"
    /\ threads.callers[c].pc \in {"notify", "notify_record", "report", "report_record"}
    /\ LET f == threads.callers[c]
       IN IF f.pc \in {"notify", "report"}
          THEN /\ threads' =
                      IF LoopEnded(c)
                      THEN Ended(c, IF f.pc = "notify" THEN "True" ELSE "False", NoError)
                      ELSE [threads EXCEPT !.callers[c].pc =
                                               IF f.pc = "notify" THEN "notify_record"
                                               ELSE "report_record",
                                           !.callers[c].archivist = Current(c),
                                           !.callers[c].i = @ + 1]
               /\ UNCHANGED events
          ELSE IF f.archivist \in failing
          THEN /\ threads' =
                      IF f.pc = "notify_record"
                      THEN [threads EXCEPT !.callers[c].pc = "report",
                                           !.callers[c].i = 1,
                                           !.callers[c].result = "raised",
                                           !.callers[c].error = ArchivistError,
                                           !.callers[c].archivist = None]
                      ELSE [Ended(c, "raised", ArchivistError)
                                EXCEPT !.callers[c].archivist = None]
               /\ UNCHANGED events
          ELSE /\ events' = [events EXCEPT ![f.archivist] =
                                Append(@, IF f.pc = "notify_record"
                                          THEN ConnectionOpened
                                          ELSE SystemError(f.error))]
               /\ threads' = [threads EXCEPT !.callers[c].pc =
                                                 IF f.pc = "notify_record" THEN "notify"
                                                 ELSE "report",
                                             !.callers[c].archivist = None]
    /\ UNCHANGED <<comm_port, connected, archivists, current_response, character_queue,
                   failing, send_calls, call, trace, fed, attended, calls, taken,
                   adapter, handles>>

\* stop(): `if self._comm_port.is_connected():`, the read of `self._serial is
\* not None`; nothing else when it is None.
stop_check(c) ==
    /\ Free(c)
    /\ threads' = WithFrame(c, IF HasSerial(adapter)
                               THEN [NoFrame EXCEPT !.op = "stop", !.pc = "load_is_open"]
                               ELSE [NoFrame EXCEPT !.op = "stop", !.pc = "done"])
    /\ UNCHANGED <<connected, calls, adapter, handles>>
    /\ UNCHANGED engine_vars

\* `self._serial.is_open` of the object that was read from _serial: when that
\* was None, stop() raises the AttributeError.
stop_is_open(c) ==
    /\ At(c, "stop", "is_open")
    /\ LET h == threads.callers[c].h
       IN threads' =
              IF h = NoHandle
              THEN Ended(c, "raised", NoneTypeError)
              ELSE IF handles[h].is_open
              THEN [threads EXCEPT !.callers[c].pc = "notify", !.callers[c].i = 1,
                                   !.callers[c].h = NoHandle]
              ELSE [Ended(c, None, NoError) EXCEPT !.callers[c].h = NoHandle]
    /\ UNCHANGED <<connected, calls, adapter, handles>>
    /\ UNCHANGED engine_vars

\* The loop of stop(), `for archivist in self._archivists:
\* archivist.record_connection_closed()`, each round in its two steps. First
\* the list iterator takes the archivist at its index from the list as it is
\* now and moves on, or ends the loop, and `self._comm_port.disconnect()` is
\* called next. Then the archivist that was taken records the
\* CONNECTION_CLOSED, also when it was removed from the list in between, or
\* raises, which ends stop() before disconnect() is called.
stop_notify(c) ==
    /\ threads.callers[c].op = "stop"
    /\ threads.callers[c].pc \in {"notify", "notify_record"}
    /\ LET f == threads.callers[c]
       IN IF f.pc = "notify"
          THEN /\ threads' =
                      IF LoopEnded(c)
                      THEN [threads EXCEPT !.callers[c].pc = "disconnect"]
                      ELSE [threads EXCEPT !.callers[c].pc = "notify_record",
                                           !.callers[c].archivist = Current(c),
                                           !.callers[c].i = @ + 1]
               /\ UNCHANGED events
          ELSE IF f.archivist \in failing
          THEN /\ threads' = [Ended(c, "raised", ArchivistError)
                                 EXCEPT !.callers[c].archivist = None]
               /\ UNCHANGED events
          ELSE /\ events' = [events EXCEPT ![f.archivist] =
                                Append(@, ConnectionClosed)]
               /\ threads' = [threads EXCEPT !.callers[c].pc = "notify",
                                             !.callers[c].archivist = None]
    /\ UNCHANGED <<comm_port, connected, archivists, current_response, character_queue,
                   failing, send_calls, call, trace, fed, attended, calls, taken,
                   adapter, handles>>

\* stop() once disconnect() has returned or raised: stop() ends the same way.
stop_returned(c) ==
    /\ At(c, "stop", "returned")
    /\ threads' = Ended(c, threads.callers[c].result, threads.callers[c].error)
    /\ UNCHANGED <<connected, calls, adapter, handles>>
    /\ UNCHANGED engine_vars

\* Caller c has made no call yet.
Fresh(c) == threads.callers[c].pc = "idle"

\* ForthRepl(adapter) with a1, or a1 and then a2, registered, archivists that
\* work or raise in record_event, and a SerialAdapter that was never
\* connected.
InitLifecycle ==
    /\ comm_port = "port"
    /\ connected = FALSE
    /\ archivists \in {<<"a1">>, <<"a1", "a2">>}
    /\ current_response = <<>>
    /\ character_queue = <<>>
    /\ events = [a \in Archivists |-> <<>>]
    /\ failing \in SUBSET Archivists
    /\ send_calls = <<>>
    /\ call = Returned("__init__", <<>>, "None", NoCall)
    /\ trace = <<>>
    /\ fed = <<>>
    /\ attended = Archivists
    /\ calls = 0
    /\ Idle

\* One start() by one thread and one stop() by another, on a SerialAdapter
\* that is not connected; the reader thread runs beside them, the join waits
\* for it to end or gives up on it after its second, and a third thread
\* changes the registry once.
NextLifecycle ==
    \/ \E archivist \in Archivists :
           /\ RegistryUntouched
           /\ Registrations(archivist, archivists) = 0
           /\ add_archivist(archivist)
    \/ \E archivist \in Archivists : RegistryUntouched /\ remove_archivist(archivist)
    \/ Fresh("main") /\ start_begin("main")
    \/ \E outcome \in OpenOutcomes : connect_open("main", outcome)
    \/ connect_clear_stop("main")
    \/ connect_create_thread("main")
    \/ load_read_thread("main")
    \/ connect_daemon("main")
    \/ connect_start_thread("main")
    \/ start_returned("main")
    \/ start_notify("main")
    \/ Fresh("other") /\ stop_check("other")
    \/ stop_is_open("other")
    \/ stop_notify("other")
    \/ ~Free("other") /\ disconnect_check("other")
    \/ load_serial("other")
    \/ load_read_thread("other")
    \/ disconnect_is_open("other")
    \/ disconnect_set_stop("other")
    \/ disconnect_test_thread("other")
    \/ disconnect_join("other")
    \/ \E timed_out \in BOOLEAN : disconnect_joined("other", timed_out)
    \/ disconnect_forget("other")
    \/ disconnect_close("other")
    \/ disconnect_clear("other")
    \/ stop_returned("other")
    \/ \E r \in Readers : reader_loop(r)
    \/ \E r \in Readers : reader_is_connected(r)
    \/ \E r \in Readers : reader_load_serial(r)
    \/ \E r \in Readers : reader_is_open(r)
    \/ \E r \in Readers : reader_in_waiting(r)

SpecLifecycle == InitLifecycle /\ [][NextLifecycle]_vars

\* The type of the last event archivist a recorded, None when it recorded none.
LastType(a) == IF events[a] = <<>> THEN None ELSE events[a][Len(events[a])].type

\* C27: once a start() and a stop() that ran beside each other on an adapter
\* that was not connected have both ended, with archivists that work and a
\* registry that was left alone, the last event each registered archivist
\* recorded is CONNECTION_OPENED exactly when the adapter reports
\* is_connected() true.
C27_StopBesideStartIsSafe ==
    (/\ At("main", "start", "done") /\ At("other", "stop", "done")
     /\ failing = {} /\ RegistryUntouched)
        => \A a \in Archivists :
              Registered(a)
                  => (LastType(a) = "CONNECTION_OPENED" <=> IsOpen(adapter, handles))

\* ------------------------------------------------------------------ the pending line
\* C32: after every handle_character call with a terminator, whether the
\* dispatch of the completed line returned or an archivist raised in it, the
\* pending-line buffer is empty.
C32_BufferResetAfterEveryFlush ==
    (call.op = "handle_character" /\ IsTerminator(call.arg[1]))
        => current_response = <<>>

\* C33: whatever handle_character, start, stop, process_command, add_archivist
\* and remove_archivist calls were made, the pending-line buffer holds neither
\* '\n' nor '\r'.
C33_NoTerminatorInBuffer ==
    \A i \in 1..Len(current_response) : current_response[i] \notin {"\n", "\r"}

\* C33 witness: '\r' and then 'b' were passed to handle_character: the buffer
\* holds 'b' alone.
C33_Witness ==
    /\ fed = <<"\r", "b">>
    /\ current_response = <<"b">>

\* C34: with archivists that work, a handle_character call with a terminator
\* made while the pending buffer is empty, or right after another terminator,
\* records no event; and no SYSTEM_RESPONSE carries an empty response.
C34_BlankLinesAreSuppressed ==
    [][/\ \A t \in {"\n", "\r"} :
             (/\ fed' = Append(fed, t)
              /\ \/ current_response = <<>>
                 \/ fed # <<>> /\ fed[Len(fed)] \in {"\n", "\r"})
                 => events' = events
       /\ \A a \in Archivists : \A i \in 1..Len(events'[a]) :
             events'[a][i].type = "SYSTEM_RESPONSE" => events'[a][i].data # <<>>]_vars

\* C34 witness: a1 was registered when '\r', 'a', '\n', '\n' were passed: the
\* leading '\r' and the second '\n' recorded nothing, the line 'a' is the one
\* event a1 holds.
C34_Witness ==
    /\ fed = <<"\r", "a", "\n", "\n">>
    /\ archivists = <<"a1">>
    /\ events["a1"] = <<SystemResponse(<<"a">>)>>
    /\ current_response = <<>>

\* ------------------------------------------------------------------ lifecycle events
\* C36: a start() call made right after a start() call that returned True (the
\* port is connected, the registry unchanged between the two) records no
\* second CONNECTION_OPENED: each registered archivist's CONNECTION_OPENED and
\* CONNECTION_CLOSED events alternate.
C36_LifecycleEventsAlternate ==
    [][(call.op = "start" /\ call.result = "True" /\ StepOf("start"))
          => \A a \in Archivists :
                Registered(a) => OfType("CONNECTION_OPENED", NewEvents(a)) = <<>>]_vars

\* ------------------------------------------------------------------ command events
\* The positions in a sequence of calls at which archivist a was called with event.
CallsWith(a, event, made) ==
    {i \in CallsOf("record_event", made) : made[i].target = a /\ made[i].event = event}

\* C37: in a process_command call that reached send_command (the command is
\* not the exit word and the archivists work), every registered archivist was
\* called with the USER_COMMAND before send_command was called; and when
\* send_command raised, so that nothing was written, every registered
\* archivist was called with the SYSTEM_ERROR after it and holds the
\* USER_COMMAND followed by the SYSTEM_ERROR as its last two events.
C37_CommandRecordedBeforeSend ==
    (call.op = "process_command" /\ call.port # NoCall /\ SinksWork)
        => /\ Cardinality(CallsOf("send_command", trace)) = 1
           /\ \A a \in Archivists : \A s \in CallsOf("send_command", trace) :
                 Registered(a)
                     => /\ CallsWith(a, UserCommand(call.arg), trace) # {}
                        /\ \A i \in CallsWith(a, UserCommand(call.arg), trace) : i < s
                        /\ call.port \in SendErrors
                               => /\ CallsWith(a, SystemError(call.port), trace) # {}
                                  /\ \A j \in CallsWith(a, SystemError(call.port), trace) :
                                        s < j
                                  /\ LastEvents(events[a], 2)
                                        = <<UserCommand(call.arg), SystemError(call.port)>>

\* C37 witness: process_command("2") on a port that was set and never
\* connected: send_command raised "Not connected to FORTH system", and a1 and
\* a2 hold the USER_COMMAND and then the SYSTEM_ERROR.
C37_Witness ==
    /\ call.op = "process_command" /\ call.arg = <<"2">>
    /\ call.port = NotConnectedError
    /\ ~connected
    /\ archivists = <<"a1", "a2">>
    /\ \A a \in Archivists :
          events[a] = <<UserCommand(<<"2">>), SystemError(NotConnectedError)>>

\* ------------------------------------------------------------------ the reader thread
\* ForthRepl(adapter) with a1 registered, an archivist that raises; 'a' was
\* passed to handle_character and is pending; then the SerialAdapter's
\* connect() returned True and its reader thread was started.
InitReader ==
    /\ comm_port = "port"
    /\ archivists = <<"a1">>
    /\ current_response = <<"a">>
    /\ character_queue = <<"a">>
    /\ events = [a \in Archivists |-> <<>>]
    /\ failing = {"a1"}
    /\ send_calls = <<>>
    /\ call = Returned("handle_character", <<"a">>, "None", NoCall)
    /\ trace = <<>>
    /\ fed = <<"a">>
    /\ attended = Archivists
    /\ calls = 0
    /\ taken = <<>>
    /\ connected = TRUE
    /\ adapter = [serial |-> 1, stop_reading |-> FALSE, read_thread |-> 1,
                  char_queue |-> <<>>]
    /\ handles = <<NewSerial>>
    /\ threads = [callers |-> [c \in Callers |->
                                  IF c = "main"
                                  THEN [NoFrame EXCEPT !.op = "connect",
                                                       !.pc = "done",
                                                       !.result = "True"]
                                  ELSE NoFrame],
                  readers |-> <<[NewThread EXCEPT !.pc = "loop"]>>]

\* The device sends bytes, the reader thread reads and delivers them, and the
\* one caller disconnects, with a join that waits for the reader or gives up
\* on it; connect() is not called again.
NextReader ==
    \/ \E byte \in Bytes : arrive(byte)
    \/ \E r \in Readers : reader_loop(r)
    \/ \E r \in Readers : reader_is_connected(r)
    \/ \E r \in Readers : reader_load_serial(r)
    \/ \E r \in Readers : reader_is_open(r)
    \/ \E r \in Readers : reader_in_waiting(r)
    \/ \E r \in Readers : reader_read(r)
    \/ \E r \in Readers : reader_put(r)
    \/ \E r \in Readers : reader_deliver(r)
    \/ \E r \in Readers : reader_test(r)
    \/ \E r \in Readers : reader_arg(r)
    \/ \E r \in Readers : reader_dispatch(r)
    \/ \E r \in Readers : reader_append(r)
    \/ disconnect_check("main")
    \/ load_serial("main")
    \/ load_read_thread("main")
    \/ disconnect_is_open("main")
    \/ disconnect_set_stop("main")
    \/ disconnect_test_thread("main")
    \/ disconnect_join("main")
    \/ \E timed_out \in BOOLEAN : disconnect_joined("main", timed_out)
    \/ disconnect_forget("main")
    \/ disconnect_close("main")
    \/ disconnect_clear("main")

SpecReader == InitReader /\ [][NextReader]_vars

\* A handle_character call made by the reader raised: the reader's `except`
\* handler printed the archivist's exception.
HandlerRaised == \E r \in Readers : ArchivistError \in threads.readers[r].caught

\* C38: once a handle_character call made by the reader thread has raised,
\* the reader has not left its loop unless the adapter was told to stop or is
\* not connected; and the characters passed to handle_character after the
\* first 'a', followed by the one the reader holds, are the bytes read from
\* the port, decoded, in the order they arrived.
C38_HandlerFailureKeepsReaderAlive ==
    HandlerRaised
        => /\ \A r \in Readers :
                 Finished(r) => (adapter.stop_reading \/ ~IsOpen(adapter, handles))
           /\ Len(fed \o Held(threads.readers)) = 1 + Len(AllRead(handles))
           /\ \A i \in 1..Len(AllRead(handles)) :
                 (fed \o Held(threads.readers))[i + 1] = Decode(AllRead(handles)[i])

\* C38 witness: the bytes '\n' and 'a' arrived; the call with '\n' raised in
\* a1, the reader went on, and the call with 'a' returned: the pending line is
\* 'aa', and the reader is running on the connected adapter.
C38_Witness ==
    /\ AllRead(handles) = <<10, 97>>
    /\ fed = <<"a", "\n", "a">>
    /\ threads.readers = <<[NewThread EXCEPT !.pc = "loop", !.caught = {ArchivistError}]>>
    /\ current_response = <<"a", "a">>
    /\ ~adapter.stop_reading /\ IsOpen(adapter, handles)

\* The reader and the disconnecting thread are scheduled: a thread that can
\* take its next step takes it, every handle_character call ends, and a join
\* returns when the thread has ended or the second is over.
SpecReaderFair ==
    /\ SpecReader
    /\ WF_vars(load_serial("main"))
    /\ WF_vars(load_read_thread("main"))
    /\ WF_vars(disconnect_is_open("main"))
    /\ WF_vars(disconnect_set_stop("main"))
    /\ WF_vars(disconnect_test_thread("main"))
    /\ WF_vars(disconnect_join("main"))
    /\ WF_vars(\E timed_out \in BOOLEAN : disconnect_joined("main", timed_out))
    /\ WF_vars(disconnect_forget("main"))
    /\ WF_vars(disconnect_close("main"))
    /\ WF_vars(disconnect_clear("main"))
    /\ WF_vars(\E r \in Readers : reader_loop(r))
    /\ WF_vars(\E r \in Readers : reader_is_connected(r))
    /\ WF_vars(\E r \in Readers : reader_load_serial(r))
    /\ WF_vars(\E r \in Readers : reader_is_open(r))
    /\ WF_vars(\E r \in Readers : reader_in_waiting(r))
    /\ WF_vars(\E r \in Readers : reader_read(r))
    /\ WF_vars(\E r \in Readers : reader_put(r))
    /\ WF_vars(\E r \in Readers : reader_deliver(r))
    /\ WF_vars(\E r \in Readers : reader_test(r))
    /\ WF_vars(\E r \in Readers : reader_arg(r))
    /\ WF_vars(\E r \in Readers : reader_dispatch(r))
    /\ WF_vars(\E r \in Readers : reader_append(r))

\* C39: once disconnect() has been called on the connected adapter, and
\* connect() is not called again, eventually no reader thread is running: the
\* reader has left its loop.
C39_ReaderTerminatesAfterDisconnect ==
    (threads.callers["main"].op = "disconnect") ~> (Alive = {})

\* C39 witness: disconnect() has returned None, the stop flag is set, the
\* port is closed and the reader thread has left its loop, having read and
\* delivered a byte before.
C39_Witness ==
    /\ threads.callers["main"] = Return("main", "disconnect", <<>>, None)
    /\ adapter.stop_reading
    /\ ~IsOpen(adapter, handles)
    /\ Len(fed) = 2
    /\ threads.readers = <<[NewThread EXCEPT !.pc = "done"]>>

\* ------------------------------------------------------------------ a sink at work in the reader
\* ForthRepl(adapter) with a1 registered, an archivist that works; 'a' was
\* passed to handle_character and is pending; then start() returned True: a1
\* recorded CONNECTION_OPENED and the SerialAdapter's reader thread runs.
InitHandling ==
    /\ comm_port = "port"
    /\ archivists = <<"a1">>
    /\ current_response = <<"a">>
    /\ character_queue = <<"a">>
    /\ events = [a \in Archivists |-> IF a = "a1" THEN <<ConnectionOpened>> ELSE <<>>]
    /\ failing = {}
    /\ send_calls = <<>>
    /\ call = Returned("start", <<>>, "True", "True")
    /\ trace = <<PortCall("connect", FALSE)>>
              \o Deliveries(ConnectionOpened, <<"a1">>, TRUE)
    /\ fed = <<"a">>
    /\ attended = Archivists
    /\ calls = 0
    /\ taken = <<>>
    /\ connected = TRUE
    /\ adapter = [serial |-> 1, stop_reading |-> FALSE, read_thread |-> 1,
                  char_queue |-> <<>>]
    /\ handles = <<NewSerial>>
    /\ threads = [callers |-> [c \in Callers |->
                                  IF c = "main"
                                  THEN [NoFrame EXCEPT !.op = "start",
                                                       !.pc = "done",
                                                       !.result = "True"]
                                  ELSE NoFrame],
                  readers |-> <<[NewThread EXCEPT !.pc = "loop"]>>]

\* The device sends bytes and the reader thread reads and delivers them, the
\* archivist's record_event taking its time, while the thread that started
\* the engine calls stop().
NextHandling ==
    \/ \E byte \in Bytes : arrive(byte)
    \/ \E r \in Readers : reader_loop(r)
    \/ \E r \in Readers : reader_is_connected(r)
    \/ \E r \in Readers : reader_load_serial(r)
    \/ \E r \in Readers : reader_is_open(r)
    \/ \E r \in Readers : reader_in_waiting(r)
    \/ \E r \in Readers : reader_read(r)
    \/ \E r \in Readers : reader_put(r)
    \/ \E r \in Readers : reader_deliver(r)
    \/ \E r \in Readers : reader_test(r)
    \/ \E r \in Readers : reader_arg(r)
    \/ \E r \in Readers : reader_dispatch(r)
    \/ \E r \in Readers : reader_reset(r)
    \/ \E r \in Readers : reader_append(r)
    \/ stop_check("main")
    \/ stop_is_open("main")
    \/ stop_notify("main")
    \/ ~Free("main") /\ disconnect_check("main")
    \/ load_serial("main")
    \/ load_read_thread("main")
    \/ disconnect_is_open("main")
    \/ disconnect_set_stop("main")
    \/ disconnect_test_thread("main")
    \/ disconnect_join("main")
    \/ \E timed_out \in BOOLEAN : disconnect_joined("main", timed_out)
    \/ disconnect_forget("main")
    \/ disconnect_close("main")
    \/ disconnect_clear("main")
    \/ stop_returned("main")

SpecHandling == InitHandling /\ [][NextHandling]_vars

\* Archivist a recorded a SYSTEM_RESPONSE after a CONNECTION_CLOSED with no
\* CONNECTION_OPENED between them.
ResponseAfterClose(a) ==
    \E i \in 1..Len(events[a]) : \E j \in (i + 1)..Len(events[a]) :
        /\ events[a][i].type = "CONNECTION_CLOSED"
        /\ events[a][j].type = "SYSTEM_RESPONSE"
        /\ \A k \in (i + 1)..(j - 1) : events[a][k].type # "CONNECTION_OPENED"

\* C35: with the reader thread running beside stop(), no registered archivist
\* records a SYSTEM_RESPONSE after a CONNECTION_CLOSED and before the next
\* CONNECTION_OPENED.
C35_NoResponseAfterClose ==
    \A a \in Archivists : Registered(a) => ~ResponseAfterClose(a)

\* C31: whenever an archivist is handling a SYSTEM_RESPONSE in a reader
\* thread and a byte waits in the open port, some reader thread is at its loop
\* test or at its reads of the port, where the byte is read and put on the
\* character queue.
C31_SlowSinkDoesNotStallReading ==
    (/\ \E r \in Readers : threads.readers[r].pc = "record"
     /\ IsOpen(adapter, handles)
     /\ handles[adapter.serial].waiting # <<>>)
        => \E r \in Readers :
              threads.readers[r].pc \in {"loop", "is_connected", "load_is_open",
                                         "is_open", "load_in_waiting", "in_waiting",
                                         "load_read", "read"}

====
